---- MODULE Spec2Model ----
(***************************************************************************)
(* Model of the content script of Fake Form Filler (class FakeFormFiller): *)
(* field classification, the fillability predicate, value generation,     *)
(* constraint enforcement, the scan / fill / clear entry points and the   *)
(* document they work on.                                                  *)
(*                                                                         *)
(* A JavaScript string is a sequence of one-character strings, so that     *)
(* length, trimming and truncation are computed and not assumed.  The      *)
(* text the classifier reads (name, id, placeholder, autocomplete, class,  *)
(* labels) is abstracted to the set kw of the regular expressions of       *)
(* detectFieldType that match it.                                          *)
(***************************************************************************)
EXTENDS Integers, Sequences, FiniteSets, TLC

\* ------------------------------------------------------------------ bounds
NumControls == 2        \* controls in the document
MaxPageActions == 1     \* changes the page's own scripts make to controls

\* ------------------------------------------------------- program constants
DefaultFillDelay == 100     \* defaultSettings().fillDelay

\* ------------------------------------------------------------------ strings
EmptyStr == <<>>
Blank == <<" ">>
SampleData == <<"S","a","m","p","l","e"," ","D","a","t","a">>
SampleText == <<"S","a","m","p","l","e"," ","T","e","x","t">>
FallbackEmail == <<"t","e","s","t","@","e","x","a","m","p","l","e",".","c","o","m">>
FallbackDate == <<"2","0","2","6","-","1","1","-","0","3">>
FallbackParagraph == <<"L","o","r","e","m"," ","i","p","s","u","m">>
FakerEmail == <<"a","@","b",".","c">>
FakerWords == <<"q","u","o"," ","e","t">>
UserText == <<"u","s","e","r">>
Red == <<"r","e","d">>
Blue == <<"b","l","u","e">>

Digit(d) == CASE d = 0 -> "0" [] d = 1 -> "1" [] d = 2 -> "2" [] d = 3 -> "3"
              [] d = 4 -> "4" [] d = 5 -> "5" [] d = 6 -> "6" [] d = 7 -> "7"
              [] d = 8 -> "8" [] d = 9 -> "9"

DigitChars == {"0","1","2","3","4","5","6","7","8","9"}

RECURSIVE NatToStr(_)
NatToStr(n) == IF n < 10 THEN <<Digit(n)>>
               ELSE Append(NatToStr(n \div 10), Digit(n % 10))

\* String(n) for an integer n
NumToStr(n) == IF n < 0 THEN <<"-">> \o NatToStr(0 - n) ELSE NatToStr(n)

IsWhite(ch) == ch = " "

RECURSIVE TrimLeft(_)
TrimLeft(s) == IF s = <<>> THEN <<>>
               ELSE IF IsWhite(Head(s)) THEN TrimLeft(Tail(s)) ELSE s

RECURSIVE TrimRight(_)
TrimRight(s) == IF s = <<>> THEN <<>>
                ELSE IF IsWhite(s[Len(s)]) THEN TrimRight(SubSeq(s, 1, Len(s) - 1))
                ELSE s

\* String.prototype.trim
Trim(s) == TrimRight(TrimLeft(s))

\* the value sanitization of <input type=number>: a string that is not a
\* valid floating-point number becomes the empty string
IsNumericStr(s) ==
  /\ s # <<>>
  /\ LET body == IF Head(s) = "-" THEN Tail(s) ELSE s
     IN /\ body # <<>>
        /\ \A i \in 1..Len(body) : body[i] \in DigitChars

\* --------------------------------------------------------------- JS values
Str(x) == [k |-> "str", s |-> x, n |-> 0, b |-> FALSE]
Num(x) == [k |-> "num", s |-> <<>>, n |-> x, b |-> FALSE]
Bool(x) == [k |-> "bool", s |-> <<>>, n |-> 0, b |-> x]

\* JavaScript truthiness of a value
Truthy(v) == CASE v.k = "str" -> v.s # <<>>
               [] v.k = "num" -> v.n # 0
               [] v.k = "bool" -> v.b

\* ---------------------------------------------------------------- settings
BaseKinds == {"text", "email", "password", "textarea", "select", "checkbox",
              "radio", "date", "number", "url", "tel"}

defaultSettings ==
  [autoFillEnabled |-> TRUE,
   visualFeedbackEnabled |-> TRUE,
   skipHiddenFields |-> TRUE,
   fillDelay |-> DefaultFillDelay,
   enabledFieldTypes |-> [b \in BaseKinds |-> TRUE]]

\* { ...a, ...b }: the keys of both, b's value where b has the key
Spread(a, b) ==
  [k \in (DOMAIN a) \cup (DOMAIN b) |-> IF k \in DOMAIN b THEN b[k] ELSE a[k]]

\* the GET_SETTINGS message got no answer
NoResponse == [answered |-> FALSE, success |-> FALSE, hasSettings |-> FALSE,
               settings |-> <<>>]

\* the merge without the spread of the enabled-kinds map
getSettingsShallow(r) ==
  IF r.answered /\ r.success
    THEN Spread(defaultSettings, IF r.hasSettings THEN r.settings ELSE <<>>)
    ELSE defaultSettings

\* getSettings: the value the promise resolves with; stored || {} is the
\* empty object when the answer carries no settings
getSettings(r) ==
  LET defaults == defaultSettings
  IN IF r.answered /\ r.success
       THEN LET stored == IF r.hasSettings THEN r.settings ELSE <<>>
                storedKinds == IF "enabledFieldTypes" \in DOMAIN stored
                                 THEN stored.enabledFieldTypes ELSE <<>>
            IN Spread(Spread(defaults, stored),
                      [enabledFieldTypes |->
                         Spread(defaults.enabledFieldTypes, storedKinds)])
       ELSE defaults

\* ------------------------------------------------------------- classifier
detectFieldType(f) ==
  IF f.type = "email" \/ "email" \in f.kw THEN "email"
  ELSE IF f.type = "password" \/ "pass" \in f.kw THEN "password"
  ELSE IF f.type = "tel" \/ "phone" \in f.kw THEN "phone"
  ELSE IF f.type = "url" \/ "url" \in f.kw THEN "url"
  ELSE IF f.type \in {"date", "datetime-local"} \/ "date" \in f.kw THEN "date"
  ELSE IF f.type \in {"number", "range"} \/ "number" \in f.kw THEN "number"
  ELSE IF "name" \in f.kw THEN
         (IF "first" \in f.kw THEN "firstName"
          ELSE IF "last" \in f.kw THEN "lastName"
          ELSE IF "middle" \in f.kw THEN "middleName"
          ELSE IF "full" \in f.kw THEN "fullName"
          ELSE "firstName")
  ELSE IF "address" \in f.kw THEN
         (IF "street" \in f.kw THEN "streetAddress"
          ELSE IF "city" \in f.kw THEN "city"
          ELSE IF "state" \in f.kw THEN "state"
          ELSE IF "zip" \in f.kw THEN "zipCode"
          ELSE IF "country" \in f.kw THEN "country"
          ELSE "streetAddress")
  ELSE IF "company" \in f.kw THEN "company"
  ELSE IF "job" \in f.kw THEN "jobTitle"
  ELSE IF "card" \in f.kw THEN "creditCard"
  ELSE IF f.tag = "textarea" THEN "paragraph"
  ELSE IF f.tag = "select" THEN "select"
  ELSE IF f.type = "checkbox" THEN "checkbox"
  ELSE IF f.type = "radio" THEN "radio"
  ELSE "text"

getBaseType(f, detectedType) ==
  IF f.tag = "textarea" THEN "textarea"
  ELSE IF f.type = "email" THEN "email"
  ELSE IF f.type = "password" THEN "password"
  ELSE IF f.type = "tel" THEN "tel"
  ELSE IF f.type = "url" THEN "url"
  ELSE IF f.type \in {"date", "datetime-local"} THEN "date_disabled"
  ELSE IF f.type \in {"number", "range"} THEN "number"
  ELSE IF f.type = "checkbox" THEN "checkbox"
  ELSE IF f.type = "radio" THEN "radio"
  ELSE IF f.tag = "select" THEN "select"
  ELSE IF detectedType = "paragraph" THEN "textarea"
  ELSE IF detectedType = "phone" THEN "tel"
  ELSE "text"

isFieldEmpty(f) ==
  IF f.type \in {"checkbox", "radio"} THEN ~f.checked
  ELSE Trim(f.value) = <<>>

\* enabledMap[baseType]: a key the map does not have reads as undefined
EnabledIn(s, baseType) ==
  baseType \in DOMAIN s.enabledFieldTypes /\ s.enabledFieldTypes[baseType]

IsHidden(f) == f.hidden \/ f.type = "hidden"

\* a deny-list test that looks at the name only
IsCaptchaNameOnly(f) == "captcha" \in f.nameHas

\* name or id contains "captcha" ("recaptcha" contains it too)
IsCaptcha(f) == "captcha" \in f.nameHas \/ "captcha" \in f.idHas

\* the predicate without its date test
isFieldFillableDateAllowed(f, s) ==
  LET detectedType == detectFieldType(f)
      baseType == getBaseType(f, detectedType)
  IN /\ EnabledIn(s, baseType)
     /\ ~(s.skipHiddenFields /\ IsHidden(f))
     /\ ~IsCaptcha(f)
     /\ ~(f.disabled \/ f.readOnly)
     /\ ~f.noAutofill
     /\ isFieldEmpty(f)

isFieldFillable(f, s) ==
  LET detectedType == detectFieldType(f)
      baseType == getBaseType(f, detectedType)
  IN /\ detectedType # "date"
     /\ EnabledIn(s, baseType)
     /\ ~(s.skipHiddenFields /\ IsHidden(f))
     /\ ~IsCaptcha(f)
     /\ ~(f.disabled \/ f.readOnly)
     /\ ~f.noAutofill
     /\ isFieldEmpty(f)


\* --------------------------------------------------------------- generator
FallbackName == <<"A","l","e","x">>
FakerFirstName == <<"A","n","a">>
FakerUserName == <<"a","n","a","9">>
FakerParagraph == <<"L","o","r","e","m"," ","i","p","s","u","m"," ","d","o","l","o","r">>
FakerSentence == <<"Q","u","o"," ","e","t"," ","u","t",".">>
Aadhaar == <<"1","2","3","4","5","6","7","8","9","0","1","2">>

WordsLimit == 50        \* below this limit the paragraph is a word list
SentenceLimit == 200    \* below this limit it is one sentence
MaxDigits == 12         \* cap on the digit count derived from maxlength
DefaultSpan == 100      \* default numeric range [min, min + 100]

Min2(a, b) == IF a < b THEN a ELSE b

RECURSIVE Pow10(_)
Pow10(d) == IF d = 0 THEN 1 ELSE 10 * Pow10(d - 1)

\* the options handleSelectField may pick: non-empty value and non-empty text
ValidOptions(f) ==
  {i \in 1..Len(f.options) :
     /\ f.options[i].value # <<>>
     /\ Trim(f.options[i].value) # <<>>
     /\ Trim(f.options[i].text) # <<>>}

handleSelectField(f) ==
  IF Len(f.options) = 0 \/ ValidOptions(f) = {} THEN {Str(<<>>)}
  ELSE {Str(f.options[i].value) : i \in ValidOptions(f)}

\* a fallback table whose entries are blank
getFallbackDataBlank(fieldType) == {Str(Blank)}

\* the table of getFallbackData; Math.random() leaves the number open
getFallbackData(fieldType) ==
  CASE fieldType = "email" -> {Str(FallbackEmail)}
    [] fieldType = "date" -> {Str(FallbackDate)}
    [] fieldType = "number" -> {Num(1), Num(100)}
    [] fieldType = "paragraph" -> {Str(FallbackParagraph)}
    [] fieldType = "text" -> {Str(SampleText)}
    [] fieldType \in {"password", "phone", "url", "firstName", "lastName",
                      "middleName", "fullName", "streetAddress", "city",
                      "state", "zipCode", "country", "company", "jobTitle",
                      "creditCard"} -> {Str(FallbackName)}
    [] OTHER -> {Str(SampleData)}

\* the numeric range of the "number" case
NumberMin(f) == IF f.hasMin THEN f.min ELSE 0

NumberMax(f) ==
  LET lo == NumberMin(f)
      hi == IF f.hasMax THEN f.max
            ELSE IF f.maxLength > 0 THEN Pow10(Min2(f.maxLength, MaxDigits)) - 1
            ELSE lo + DefaultSpan
  IN IF hi < lo THEN lo ELSE hi

\* effective limit of the "paragraph" case: maxlength, or the smaller of it
\* and a "max N characters" hint in the parent's text (0: no limit)
ParagraphLimit(f) ==
  IF f.hintLimit > 0
    THEN (IF f.maxLength > 0 THEN Min2(f.maxLength, f.hintLimit) ELSE f.hintLimit)
    ELSE (IF f.maxLength > 0 THEN f.maxLength ELSE 0)

Truncate(s, n) == IF Len(s) > n THEN SubSeq(s, 1, n) ELSE s

ParagraphText(f) ==
  LET lim == ParagraphLimit(f)
  IN IF lim > 0
       THEN Truncate(IF lim < WordsLimit THEN FakerWords
                     ELSE IF lim < SentenceLimit THEN FakerSentence
                     ELSE FakerParagraph, lim)
       ELSE FakerParagraph

\* the switch of generateFakeData when window.faker is present; a backend
\* call that throws is caught and yields "Sample Data"
FakerData(fieldType, f) ==
  CASE fieldType = "date" -> {Str(<<>>)}
    [] fieldType = "email" -> {Str(FakerEmail), Str(SampleData)}
    [] fieldType = "number" ->
         (IF "aadhaarNumber" \in f.nameHas THEN {Str(Aadhaar)}
          ELSE IF "yearsAttended" \in f.nameHas THEN {Num(1), Num(15)}
          ELSE {Num(NumberMin(f)), Num(NumberMax(f))}) \cup {Str(SampleData)}
    [] fieldType = "paragraph" -> {Str(ParagraphText(f)), Str(SampleData)}
    [] fieldType = "select" -> handleSelectField(f)
    [] fieldType \in {"checkbox", "radio"} -> {Bool(TRUE), Bool(FALSE)}
    [] fieldType \in {"password", "phone", "url", "firstName", "lastName",
                      "middleName", "fullName", "streetAddress", "city",
                      "state", "zipCode", "country", "company", "jobTitle",
                      "creditCard"} -> {Str(FakerFirstName), Str(SampleData)}
    [] OTHER ->
         (IF "username" \in f.nameHas THEN {Str(FakerUserName)}
          ELSE IF "age" \in f.nameHas THEN {Num(18), Num(80)}
          ELSE {Str(FakerWords)}) \cup {Str(SampleData)}

\* generateFakeData(fieldType, field): the set of values a call may return
generateFakeData(fieldType, f, fakerPresent) ==
  IF ~fakerPresent THEN getFallbackData(fieldType)
  ELSE FakerData(fieldType, f)

\* ------------------------------------------------------------- constraints
TextLikeTypes == {"text", "email", "url", "password", "search", "tel"}

RECURSIVE StrToNat(_)
StrToNat(s) == IF s = <<>> THEN 0
               ELSE 10 * StrToNat(SubSeq(s, 1, Len(s) - 1))
                    + (CHOOSE d \in 0..9 : Digit(d) = s[Len(s)])

\* Number(s) of a string: blank is 0, a numeral its value, anything else NaN
StrIsNumber(s) == Trim(s) = <<>> \/ IsNumericStr(Trim(s))
StrToNum(s) ==
  LET t == Trim(s)
  IN IF t = <<>> THEN 0
     ELSE IF Head(t) = "-" THEN 0 - StrToNat(Tail(t)) ELSE StrToNat(t)

Clamp(f, x) ==
  LET lo == IF f.hasMin /\ x < f.min THEN f.min ELSE x
  IN IF f.hasMax /\ lo > f.max THEN f.max ELSE lo

applyConstraints(f, value) ==
  LET v1 == IF /\ value.k = "str"
               /\ (f.tag = "textarea" \/ f.type \in TextLikeTypes)
               /\ f.maxLength > 0
               /\ Len(value.s) > f.maxLength
            THEN Str(SubSeq(value.s, 1, f.maxLength))
            ELSE value
  IN IF f.type = "number"
       THEN (IF v1.k = "num" THEN Num(Clamp(f, v1.n))
             ELSE IF v1.k = "str" /\ StrIsNumber(v1.s) THEN Num(Clamp(f, StrToNum(v1.s)))
             ELSE IF v1.k = "bool" THEN Num(Clamp(f, IF v1.b THEN 1 ELSE 0))
             ELSE v1)
       ELSE v1


\* ---------------------------------------------------------------- document
FormIds == {1, 2}       \* form containers of the document; 0: no form

Ctl ==
  [tag |-> "input", type |-> "text", kw |-> {}, nameHas |-> {}, idHas |-> {},
   name |-> "field", badId |-> FALSE, form |-> 0, hidden |-> FALSE,
   disabled |-> FALSE, readOnly |-> FALSE, noAutofill |-> FALSE,
   value |-> <<>>, checked |-> FALSE, options |-> <<>>, group |-> 0,
   maxLength |-> 0, hintLimit |-> 0, hasMin |-> FALSE, min |-> 0,
   hasMax |-> FALSE, max |-> 0, antd |-> FALSE, wrapChecked |-> FALSE]

Opt(v) == [value |-> v, text |-> v]

\* the controls a document is drawn from
Templates ==
  { [Ctl EXCEPT !.type = "email", !.kw = {"email"}, !.name = "email", !.form = 1],
    [Ctl EXCEPT !.nameHas = {"captcha"}, !.name = "captcha_code", !.form = 1],
    [Ctl EXCEPT !.type = "radio", !.name = "plan", !.group = 1, !.form = 1],
    [Ctl EXCEPT !.type = "radio", !.name = "plan", !.group = 1, !.form = 1,
                !.disabled = TRUE, !.checked = TRUE],
    [Ctl EXCEPT !.tag = "select", !.type = "select-one", !.name = "colour",
                !.options = <<Opt(<<>>), Opt(Red), Opt(Blue)>>, !.form = 2],
    [Ctl EXCEPT !.type = "checkbox", !.name = "terms", !.antd = TRUE],
    [Ctl EXCEPT !.type = "file", !.name = "upload"] }

Controls == 1..NumControls

\* the controls of a form are contiguous and forms follow each other in
\* document order (0 stands for the controls outside every form)
WellFormed(d) ==
  \A a, b, c \in Controls :
     /\ (a < b /\ b < c /\ d[a].form = d[c].form) => d[b].form = d[a].form
     /\ (a < b /\ d[a].form # 0 /\ d[b].form # 0) => d[a].form <= d[b].form

Idx == [i \in Controls |-> i]

\* ---------------------------------------------------------------- DOM writes
\* element.checked = b; checking a radio unchecks the other radios of its
\* group (same form owner, same name), whatever their disabled state
SetChecked(d, c, b) ==
  [x \in DOMAIN d |->
     IF x = c THEN [d[x] EXCEPT !.checked = b]
     ELSE IF /\ b /\ d[c].type = "radio" /\ d[x].type = "radio"
             /\ d[c].group # 0 /\ d[x].group = d[c].group
             /\ d[x].form = d[c].form
          THEN [d[x] EXCEPT !.checked = FALSE]
          ELSE d[x]]

\* select.value = s selects the option with that value, or none
SelectValue(f, s) ==
  IF \E i \in 1..Len(f.options) : f.options[i].value = s THEN s ELSE <<>>

\* the value setter of input / textarea: a number input keeps only a valid
\* number; a file input throws on a non-empty string
RangeDefault(f) ==
  LET lo == IF f.hasMin THEN f.min ELSE 0
      hi == IF f.hasMax THEN f.max ELSE 100
  IN IF hi < lo THEN lo ELSE lo + (hi - lo) \div 2

SanitizedValue(f, s) ==
  CASE f.type = "number" -> (IF IsNumericStr(s) THEN s ELSE <<>>)
    [] f.type = "range" -> (IF IsNumericStr(s) THEN s ELSE NumToStr(RangeDefault(f)))
    [] OTHER -> s

ValueSetterThrows(f, s) == f.type = "file" /\ s # <<>>

\* String(fakeData)
ToStr(v) == CASE v.k = "str" -> v.s
              [] v.k = "num" -> NumToStr(v.n)
              [] v.k = "bool" -> IF v.b THEN <<"t","r","u","e">>
                                 ELSE <<"f","a","l","s","e">>

\* what may go wrong inside the try block of the styled-checkbox branch:
\* nothing, click() throws, or a dispatchEvent after the click throws
Faults == {"none", "click", "dispatch"}

FaultsOf(f) == IF f.type = "checkbox" /\ f.antd THEN Faults ELSE {"none"}

\* the styled-checkbox branch: checked is set, then the try block clicks
\* (which toggles the box), dispatches events, sets checked again and
\* updates the wrapper's class; its catch clause only logs
antdCheckboxWrite(d, c, v, fault) ==
  CASE fault = "none" ->
         [SetChecked(d, c, Truthy(v)) EXCEPT ![c].wrapChecked = Truthy(v)]
    [] fault = "click" -> SetChecked(d, c, Truthy(v))
    [] fault = "dispatch" -> SetChecked(d, c, ~Truthy(v))

\* the switch (field.type) of fillField: the document after the write and
\* whether the write threw
fillFieldWrite(d, c, v, fault) ==
  LET f == d[c]
  IN CASE f.type = "checkbox" ->
            [dom |-> IF f.antd
                       THEN antdCheckboxWrite(d, c, v, fault)
                       ELSE SetChecked(d, c, Truthy(v)),
             threw |-> FALSE]
       [] f.type = "radio" ->
            [dom |-> IF Truthy(v) THEN SetChecked(d, c, TRUE) ELSE d,
             threw |-> FALSE]
       [] f.type \in {"select-one", "select-multiple"} ->
            [dom |-> IF Truthy(v)
                       THEN [d EXCEPT ![c].value = SelectValue(f, ToStr(v))]
                       ELSE d,
             threw |-> FALSE]
       [] OTHER ->
            IF v.k \in {"str", "num"}
              THEN (IF ValueSetterThrows(f, ToStr(v))
                      THEN [dom |-> d, threw |-> TRUE]
                      ELSE [dom |-> [d EXCEPT ![c].value = SanitizedValue(f, ToStr(v))],
                            threw |-> FALSE])
              ELSE [dom |-> d, threw |-> FALSE]

\* ------------------------------------------------------------------- scan
getFieldIdentifier(f) == f.name

\* getFieldLabels builds the selector label[for="<id>"]; an id that breaks
\* the selector makes querySelector throw
getFieldLabelsThrows(f) == f.badId

analyzeField(d, c) ==
  [element |-> c, detectedType |-> detectFieldType(d[c]),
   name |-> getFieldIdentifier(d[c])]

\* the analysis without the fillability filter
RECURSIVE AnalyzeAllUnfiltered(_, _, _)
AnalyzeAllUnfiltered(d, s, cs) ==
  IF cs = <<>> THEN <<>>
  ELSE <<analyzeField(d, Head(cs))>> \o AnalyzeAllUnfiltered(d, s, Tail(cs))

\* the records of the fillable controls among cs, in order
RECURSIVE AnalyzeAll(_, _, _)
AnalyzeAll(d, s, cs) ==
  IF cs = <<>> THEN <<>>
  ELSE (IF isFieldFillable(d[Head(cs)], s) THEN <<analyzeField(d, Head(cs))>> ELSE <<>>)
       \o AnalyzeAll(d, s, Tail(cs))

ControlsOf(d, fm) == SelectSeq(Idx, LAMBDA c : d[c].form = fm)

analyzeForm(d, s, fm) == [id |-> fm, fields |-> AnalyzeAll(d, s, ControlsOf(d, fm))]

GroupThrows(d, fm) == \E c \in Controls : d[c].form = fm /\ getFieldLabelsThrows(d[c])

MaxFormId == CHOOSE m \in FormIds : \A g \in FormIds : g <= m

\* the forms.forEach of scanForms from form fm on: the FormRecords pushed
\* until a form throws
RECURSIVE ScanFormsFrom(_, _, _)
ScanFormsFrom(d, s, fm) ==
  IF fm > MaxFormId \/ GroupThrows(d, fm) THEN <<>>
  ELSE (IF Len(analyzeForm(d, s, fm).fields) > 0 THEN <<analyzeForm(d, s, fm)>> ELSE <<>>)
       \o ScanFormsFrom(d, s, fm + 1)

RECURSIVE Flatten(_)
Flatten(forms) == IF forms = <<>> THEN <<>>
                  ELSE Head(forms).fields \o Flatten(Tail(forms))

ScanThrows(d) == \E c \in Controls : getFieldLabelsThrows(d[c])

\* a pass that takes the controls as they come in the document
ScanPassDocumentOrder(d, s) ==
  LET all == AnalyzeAll(d, s, Idx)
  IN [forms |-> IF Len(all) > 0 THEN <<[id |-> 0, fields |-> all]>> ELSE <<>>,
      fields |-> all, threw |-> ScanThrows(d)]

\* one pass of scanForms: the inventory it leaves and whether it threw
ScanPass(d, s) ==
  LET formRecs == ScanFormsFrom(d, s, 1)
      formsThrow == \E fm \in FormIds : GroupThrows(d, fm)
      standalone == AnalyzeAll(d, s, ControlsOf(d, 0))
      withStandalone == IF ~formsThrow /\ ~GroupThrows(d, 0) /\ Len(standalone) > 0
                        THEN Append(formRecs, [id |-> 0, fields |-> standalone])
                        ELSE formRecs
  IN [forms |-> withStandalone, fields |-> Flatten(withStandalone),
      threw |-> ScanThrows(d)]


\* ------------------------------------------------------------------- state
VARIABLES
  dom,             \* the controls of the document, in document order
  settings,        \* this.settings
  faker,           \* window.faker is present
  callerOptions,   \* the options the caller passes to fill
  detectedForms,   \* this.detectedForms
  detectedFields,  \* this.detectedFields
  fillSession,     \* this.fillSession
  pc,              \* where the engine is suspended: idle, scanWait, fillLoop, fillDelay
  fillOptions,     \* fillForms: the merged options of the running call
  iter,            \* fillForms: the array the for-of loop walks
  idx,             \* fillForms: position of the loop in iter
  totalFields,     \* fillForms: fields counted before the loop
  processedFields, \* fillForms: fields filled so far
  result,          \* what the last boundary call returned
  highlighted,     \* controls carrying the visual highlight
  timers,          \* controls whose highlight removal is scheduled
  rescanPending,   \* the mutation observer's debounce timer is armed
  progressLog,     \* history: progress values sent by the running / last fill
  attempted,       \* history: loop positions the last fill reached
  threwAt,         \* history: loop positions whose fillField threw
  wrote,           \* history: controls whose value or checked state the last fill changed
  scanFresh,       \* history: "call" / "silent": the document is as the last pass
                   \* (of a scan call / of a silent scan) saw it; else "stale"
  quiet,           \* history: neither the page nor a clear acted since the last fill call
  pageLeft,        \* page actions left
  clearLog,        \* history: the run of clear calls that ends in this state
  scanLog,         \* history: the passes of the scanForms call that runs or just returned
  response,        \* what the settings store answers to GET_SETTINGS
  caller,          \* who invoked the fill call that is scheduled now
  parked,          \* fill calls waiting in their pacing delay behind a later call, oldest first
  watch,           \* the timers of the page in time units, and what the mutation observer saw
  events,          \* what one fillField or clear of one control did to it, in order
  boot,            \* how far init() of the engine has come, and what it met
  tab,             \* the background's view of one tab and the engines of its document
  fnF, fnS, fnFaker, fnOp, fnKind, fnOut   \* one call of a pure function


sessionVars == <<dom, settings, faker, callerOptions, detectedForms, detectedFields, fillSession,
                 pc, fillOptions, iter, idx, totalFields, processedFields, result,
                 highlighted, timers, rescanPending, progressLog,
                 attempted, threwAt, wrote, scanFresh, quiet, pageLeft, clearLog, scanLog>>
fnVars == <<response, fnF, fnS, fnFaker, fnOp, fnKind, fnOut>>
callVars == <<caller, parked>>
pageVars == <<boot, tab>>
vars == <<sessionVars, fnVars, callVars, watch, events, pageVars>>

\* the constructor has returned and init() has not begun
NoBoot ==
  [step |-> "constructed",   \* constructed, observer, waiting, scanning, retry, done
   channel |-> "answers",    \* chrome.runtime.sendMessage answers or throws
   observer |-> FALSE,       \* setupMutationObserver has run
   scanned |-> FALSE,        \* the initial scanForms() has returned
   isInitialized |-> FALSE,  \* this.isInitialized
   logged |-> FALSE]         \* the catch of init has logged an error

\* a tab whose document holds no engine
NoTab ==
  [engines |-> 0,            \* content scripts that ran in the extension's world
   pageEngines |-> 0,        \* content scripts that ran as page scripts
   observers |-> 0,          \* mutation observers installed in the document
   booting |-> 0,            \* engines whose init() has not reached its end
   calls |-> [t \in {"tabUpdated", "command", "contextMenu"} |-> "none"],
                             \* the injectContentScript call of each trigger
   started |-> 0,            \* injectContentScript calls so far
   autoFillEnabled |-> FALSE,
   filesRejected |-> FALSE]  \* executeScript with files rejects in this tab

\* no timer is pending and the observer has seen nothing
NoWatch ==
  [step |-> "idle",        \* fillForms: not running, in its loop, or in its delay
   left |-> 0,             \* fields the running call has yet to fill
   calls |-> 0,            \* fill calls so far
   delayLeft |-> 0,        \* time until the pacing delay is over
   rescanTimers |-> {},    \* time left of each pending debounce timer
   removals |-> {},        \* highlight removals pending: time left, and whether
                           \* the highlight is of the running call
   stuck |-> FALSE,        \* a highlight of a write that threw is on the page
   sinceMutation |-> 0,    \* history: time since the last relevant mutation
   mutated |-> FALSE,      \* history: a relevant mutation has happened
   own |-> FALSE,          \* history: the last relevant mutation was a write of the running call
   rescans |-> 0,          \* history: debounced rescans since the last relevant mutation
   burst |-> 0,            \* history: relevant mutations since the last rescan (2: two or more)
   firedAfter |-> 0,       \* history: time between the last mutation and the last rescan
   rescanInSession |-> FALSE]  \* history: a rescan armed by a write of the
                               \* running call ran before the call returned

\* fill(options) called without options; has* tells whether a key is given
NoOptions ==
  [visualFeedback |-> FALSE,
   hasSkipHidden |-> FALSE, skipHidden |-> FALSE,
   hasFillDelay |-> FALSE, fillDelay |-> 0,
   hasEnabled |-> FALSE, enabledFieldTypes |-> [b \in BaseKinds |-> TRUE]]

\* { ...this.settings, ...options }: the keys of the merged object that
\* fillForms and fillField read afterwards
MergeOptions(s, o) ==
  [fillDelay |-> IF o.hasFillDelay THEN o.fillDelay ELSE s.fillDelay,
   visualFeedback |-> o.visualFeedback]

\* the stored settings and the presence of the data backend
Environments ==
  { [settings |-> defaultSettings, faker |-> TRUE, visualFeedback |-> FALSE],
    [settings |-> defaultSettings, faker |-> FALSE, visualFeedback |-> FALSE],
    [settings |-> defaultSettings, faker |-> TRUE, visualFeedback |-> TRUE],
    [settings |-> [defaultSettings EXCEPT !.fillDelay = 0], faker |-> TRUE,
     visualFeedback |-> FALSE] }

NoResult ==
  [op |-> "none", rejected |-> FALSE, success |-> FALSE, hasError |-> FALSE,
   forms |-> 0, fields |-> 0, fieldsProcessed |-> 0, fieldsSkipped |-> 0,
   errors |-> <<>>, fieldsCleared |-> 0]

NoSession == [fieldsProcessed |-> 0, fieldsSkipped |-> 0, errors |-> <<>>]

\* no clear call ended in this state
NoClear ==
  [run |-> 0,            \* clear calls of the run (2: two or more)
   start |-> <<>>,       \* the document before the first call of the run
   before |-> <<>>,      \* the document before the last call of the run
   emptied |-> {},       \* controls the run changed; in the fill call that
                         \* follows the run: those of them that are fillable
                         \* when the call starts
   followed |-> FALSE,   \* a fill call that began right after the run is
                         \* running or just returned
   filled |-> {}]        \* controls that call has passed to fillField

\* what a fill call keeps of the clear run it followed
clearLogInFill == IF clearLog.followed THEN clearLog ELSE NoClear

NoOut == [detected |-> "none", fillable |-> FALSE, given |-> Str(<<>>), value |-> Str(<<>>)]

FnIdle ==
  /\ response = NoResponse
  /\ fnF = Ctl /\ fnS = defaultSettings /\ fnFaker = TRUE
  /\ fnOp = "none" /\ fnKind = "none" /\ fnOut = NoOut

\* the constructor: empty inventory, default settings until getSettings answers
Init ==
  /\ dom \in {d \in [Controls -> Templates] : WellFormed(d)}
  /\ \E e \in Environments :
       /\ settings = e.settings /\ faker = e.faker
       /\ callerOptions = [NoOptions EXCEPT !.visualFeedback = e.visualFeedback]
  /\ detectedForms = <<>> /\ detectedFields = <<>>
  /\ fillSession = NoSession
  /\ pc = "idle"
  /\ fillOptions = [fillDelay |-> 0, visualFeedback |-> FALSE]
  /\ iter = <<>> /\ idx = 0 /\ totalFields = 0 /\ processedFields = 0
  /\ result = NoResult
  /\ highlighted = {} /\ timers = {} /\ rescanPending = FALSE
  /\ progressLog = <<>>
  /\ attempted = {} /\ threwAt = {} /\ wrote = {}
  /\ scanFresh = "stale" /\ quiet = FALSE
  /\ pageLeft = IF callerOptions.visualFeedback THEN 0 ELSE MaxPageActions
  /\ clearLog = NoClear
  /\ scanLog = <<>>
  /\ caller = "none" /\ parked = <<>>
  /\ watch = NoWatch
  /\ events = <<>>
  /\ boot = NoBoot /\ tab = NoTab
  /\ FnIdle

fillLocals == <<fillOptions, iter, idx, totalFields, processedFields>>
fillHistory == <<progressLog, attempted, threwAt, wrote, quiet>>

\* ------------------------------------------------------------------- scan
\* the catch clause of scanForms
scanFormsCatch == [NoResult EXCEPT !.op = "scan", !.hasError = TRUE]

scanFormsReturn(forms, fields) ==
  [NoResult EXCEPT !.op = "scan", !.forms = Len(forms), !.fields = Len(fields)]

\* what is recorded of one pass: the silent flag of its scanForms call, the
\* forms it found, and whether it threw
scanPassEntry(silent, pass) ==
  [silent |-> silent, forms |-> Len(pass.forms), threw |-> pass.threw]

MaxPassesLogged == 3    \* the log of a scan call is not extended beyond this

\* a retry that is not silent: it waits and retries again when it finds no forms
ScanRetryLoud ==
  /\ pc = "scanWait"
  /\ LET pass == ScanPass(dom, settings)
     IN /\ detectedForms' = pass.forms
        /\ detectedFields' = pass.fields
        /\ IF Len(pass.forms) = 0 /\ ~pass.threw
             THEN pc' = "scanWait" /\ result' = NoResult /\ scanFresh' = "silent"
             ELSE /\ pc' = "idle" /\ scanFresh' = "call"
                  /\ result' = scanFormsReturn(pass.forms, pass.fields)
        /\ scanLog' = IF Len(scanLog) < MaxPassesLogged
                        THEN Append(scanLog, scanPassEntry(FALSE, pass)) ELSE scanLog
  /\ UNCHANGED <<dom, settings, faker, callerOptions, fillSession, fillLocals, highlighted,
                 timers, rescanPending, fillHistory, pageLeft, fnVars, callVars, watch, events, pageVars>>
  /\ clearLog' = NoClear

\* scan(): a non-silent scanForms up to its return or to the retry delay
ScanCall ==
  /\ pc = "idle"
  /\ LET pass == ScanPass(dom, settings)
     IN /\ detectedForms' = pass.forms
        /\ detectedFields' = pass.fields
        /\ IF pass.threw
             THEN pc' = "idle" /\ result' = scanFormsCatch /\ scanFresh' = "call"
             ELSE IF Len(pass.forms) = 0
               THEN pc' = "scanWait" /\ result' = NoResult /\ scanFresh' = "silent"
               ELSE /\ pc' = "idle" /\ scanFresh' = "call"
                    /\ result' = scanFormsReturn(pass.forms, pass.fields)
  /\ UNCHANGED <<dom, settings, faker, callerOptions, fillSession, fillLocals, highlighted,
                 timers, rescanPending, fillHistory, pageLeft, fnVars, callVars, watch, events, pageVars>>
  /\ clearLog' = NoClear
  /\ scanLog' = <<scanPassEntry(FALSE, ScanPass(dom, settings))>>

\* the retry of a non-silent scan that found no forms: one silent pass
ScanRetry ==
  /\ pc = "scanWait"
  /\ LET pass == ScanPass(dom, settings)
     IN /\ detectedForms' = pass.forms
        /\ detectedFields' = pass.fields
        /\ scanFresh' = "call"
        /\ result' = scanFormsReturn(pass.forms, pass.fields)
  /\ pc' = "idle"
  /\ UNCHANGED <<dom, settings, faker, callerOptions, fillSession, fillLocals, highlighted,
                 timers, rescanPending, fillHistory, pageLeft, fnVars, callVars, watch, events, pageVars>>
  /\ clearLog' = NoClear
  /\ scanLog' = Append(scanLog, scanPassEntry(TRUE, ScanPass(dom, settings)))

\* scanForms emptying and refilling the array in place: a running loop then
\* iterates the rescanned inventory
MutationRescanInPlace ==
  /\ rescanPending
  /\ pc \in {"idle", "fillDelay", "scanWait"}
  /\ LET pass == ScanPass(dom, settings)
     IN /\ detectedForms' = pass.forms
        /\ detectedFields' = pass.fields
        /\ iter' = IF pc = "fillDelay" THEN pass.fields ELSE iter
        /\ scanFresh' = "silent"
  /\ rescanPending' = FALSE
  /\ UNCHANGED <<dom, settings, faker, callerOptions, fillSession, pc, fillOptions, idx,
                 totalFields, processedFields, result,
                 highlighted, timers, fillHistory, pageLeft, fnVars, callVars, watch, events, pageVars>>
  /\ clearLog' = IF pc = "fillDelay" THEN clearLogInFill ELSE NoClear
  /\ scanLog' = IF pc = "scanWait" THEN scanLog
                ELSE <<scanPassEntry(TRUE, ScanPass(dom, settings))>>

\* the debounced rescan of the mutation observer: scanForms(true)
MutationRescan ==
  /\ rescanPending
  /\ pc \in {"idle", "fillDelay", "scanWait"}
  /\ LET pass == ScanPass(dom, settings)
     IN /\ detectedForms' = pass.forms
        /\ detectedFields' = pass.fields
        /\ scanFresh' = "silent"
  /\ rescanPending' = FALSE
  /\ UNCHANGED <<dom, settings, faker, callerOptions, fillSession, pc, fillLocals, result,
                 highlighted, timers, fillHistory, pageLeft, fnVars, callVars, watch, events, pageVars>>
  /\ clearLog' = IF pc = "fillDelay" THEN clearLogInFill ELSE NoClear
  /\ scanLog' = IF pc = "scanWait" THEN scanLog
                ELSE <<scanPassEntry(TRUE, ScanPass(dom, settings))>>


\* ------------------------------------------------------------------- fill
\* Math.round((processedFields / totalFields) * 100)
Percent(p, n) == (200 * p + n) \div (2 * n)

\* a count that misses the first record
CountFillableTail(d, s, recs) ==
  IF Len(recs) <= 1 THEN Len(recs)
  ELSE Cardinality({i \in 2..Len(recs) :
                      /\ isFieldFillable(d[recs[i].element], s)
                      /\ isFieldEmpty(d[recs[i].element])})

\* the count before the loop: records whose control is fillable and empty
RECURSIVE CountFillable(_, _, _)
CountFillable(d, s, recs) ==
  IF recs = <<>> THEN 0
  ELSE (IF isFieldFillable(d[Head(recs).element], s) /\ isFieldEmpty(d[Head(recs).element])
          THEN 1 ELSE 0)
       + CountFillable(d, s, Tail(recs))

\* an early return that reports empty work as a failure
fillFormsEmptyFailure(fields) == [NoResult EXCEPT !.op = "fill", !.hasError = TRUE]

\* the early return of fillForms when nothing is fillable
fillFormsEmpty(fields) ==
  [NoResult EXCEPT !.op = "fill", !.success = TRUE, !.fieldsSkipped = Len(fields)]

\* the return of fillForms after the loop
fillFormsReturn(processed, session) ==
  [NoResult EXCEPT !.op = "fill", !.success = TRUE, !.fieldsProcessed = processed,
                   !.fieldsSkipped = session.fieldsSkipped, !.errors = session.errors]

\* an outer handler that rethrows
fillFormsRethrow == [NoResult EXCEPT !.op = "fill", !.rejected = TRUE]

\* the outer catch clause of fillForms
fillFormsCatch == [NoResult EXCEPT !.op = "fill", !.hasError = TRUE]

\* the loop position after a field whose fillField threw
AfterError(i, n) == i + 1

\* fillForms from its first statement to the first loop iteration: new
\* session object, merged options, silent rescan, count, and the early return
fillFormsStart ==
  /\ fillOptions' = MergeOptions(settings, callerOptions)
  /\ LET pass == ScanPass(dom, settings)
         total == CountFillable(dom, settings, pass.fields)
     IN /\ detectedForms' = pass.forms
        /\ detectedFields' = pass.fields
        /\ scanFresh' = "silent"
        /\ totalFields' = total
        /\ IF total = 0
             THEN /\ pc' = "idle" /\ iter' = <<>> /\ idx' = 0
                  /\ result' = fillFormsEmpty(pass.fields)
             ELSE /\ pc' = "fillLoop" /\ iter' = pass.fields /\ idx' = 1
                  /\ result' = NoResult
  /\ fillSession' = NoSession
  /\ processedFields' = 0
  /\ progressLog' = <<>>
  /\ attempted' = {} /\ threwAt' = {} /\ wrote' = {} /\ quiet' = TRUE
  /\ UNCHANGED <<dom, settings, faker, callerOptions, highlighted, timers, rescanPending,
                 pageLeft, fnVars>>
  /\ clearLog' = IF clearLog.run = 0 THEN NoClear
                 ELSE [NoClear EXCEPT !.followed = TRUE,
                         !.emptied = {c \in clearLog.emptied :
                                        isFieldFillable(dom[c], settings)}]
  /\ scanLog' = <<scanPassEntry(TRUE, ScanPass(dom, settings))>>

\* fill(options) while no other call is in flight
FillCall ==
  /\ pc = "idle"
  /\ fillFormsStart
  /\ UNCHANGED <<callVars, watch, events, pageVars>>

\* one iteration of the for-of loop whose guard throws: the outer catch
FillGuardThrows ==
  /\ pc = "fillLoop" /\ idx <= Len(iter)
  /\ getFieldLabelsThrows(dom[iter[idx].element])
  /\ attempted' = attempted \cup {idx}
  /\ result' = fillFormsCatch
  /\ pc' = "idle"
  /\ UNCHANGED <<dom, settings, faker, callerOptions, detectedForms, detectedFields, fillSession,
                 fillLocals, highlighted, timers, rescanPending, progressLog,
                 threwAt, wrote, scanFresh, quiet, pageLeft, fnVars, callVars, watch, events, pageVars>>
  /\ clearLog' = clearLogInFill
  /\ scanLog' = <<>>

\* one iteration that skips its record: the control is no longer fillable
FillSkip ==
  /\ pc = "fillLoop" /\ idx <= Len(iter)
  /\ LET f == dom[iter[idx].element]
     IN /\ ~getFieldLabelsThrows(f)
        /\ ~(isFieldFillable(f, settings) /\ isFieldEmpty(f))
  /\ fillSession' = [fillSession EXCEPT !.fieldsSkipped = @ + 1]
  /\ attempted' = attempted \cup {idx}
  /\ idx' = idx + 1
  /\ UNCHANGED <<dom, settings, faker, callerOptions, detectedForms, detectedFields, pc,
                 fillOptions, iter, totalFields, processedFields, result,
                 highlighted, timers, rescanPending, progressLog,
                 threwAt, wrote, scanFresh, quiet, pageLeft, fnVars, callVars, watch, events, pageVars>>
  /\ clearLog' = clearLogInFill
  /\ scanLog' = <<>>

Changed(d, e) ==
  {x \in Controls : d[x].value # e[x].value \/ d[x].checked # e[x].checked}

\* one iteration that calls fillField: generate, enforce, highlight, write,
\* then count, report progress and start the pacing delay, or record the error
FillField ==
  /\ pc = "fillLoop" /\ idx <= Len(iter)
  /\ LET rec == iter[idx]
         c == rec.element
         f == dom[c]
     IN /\ ~getFieldLabelsThrows(f)
        /\ isFieldFillable(f, settings) /\ isFieldEmpty(f)
        /\ \E g \in generateFakeData(rec.detectedType, f, faker), fault \in FaultsOf(f) :
             LET w == fillFieldWrite(dom, c, applyConstraints(f, g), fault)
             IN /\ dom' = w.dom
                /\ wrote' = wrote \cup Changed(dom, w.dom)
                /\ scanFresh' = IF w.dom = dom THEN scanFresh ELSE "stale"
                /\ highlighted' = IF fillOptions.visualFeedback
                                    THEN highlighted \cup {c} ELSE highlighted
                /\ rescanPending' = (rescanPending \/ fillOptions.visualFeedback)
                /\ IF w.threw
                     THEN /\ fillSession' = [fillSession EXCEPT !.errors =
                                 Append(@, [field |-> rec.name, error |-> "message"])]
                          /\ threwAt' = threwAt \cup {idx}
                          /\ idx' = AfterError(idx, Len(iter))
                          /\ UNCHANGED <<processedFields, progressLog, timers, pc>>
                     ELSE /\ fillSession' = [fillSession EXCEPT !.fieldsProcessed = @ + 1]
                          /\ processedFields' = processedFields + 1
                          /\ progressLog' = Append(progressLog,
                                                   Percent(processedFields + 1, totalFields))
                          /\ timers' = IF fillOptions.visualFeedback
                                         THEN timers \cup {c} ELSE timers
                          /\ pc' = IF fillOptions.fillDelay > 0 THEN "fillDelay" ELSE "fillLoop"
                          /\ idx' = idx + 1
                          /\ UNCHANGED threwAt
  /\ attempted' = attempted \cup {idx}
  /\ UNCHANGED <<settings, faker, callerOptions, detectedForms, detectedFields, fillOptions, iter,
                 totalFields, result, quiet, pageLeft, fnVars, callVars, watch, events, pageVars>>
  /\ clearLog' = IF clearLog.followed
                   THEN [clearLog EXCEPT !.filled = @ \cup {iter[idx].element}]
                   ELSE NoClear
  /\ scanLog' = <<>>

\* the pacing delay is over
FillResume ==
  /\ pc = "fillDelay"
  /\ pc' = "fillLoop"
  /\ UNCHANGED <<dom, settings, faker, callerOptions, detectedForms, detectedFields, fillSession,
                 fillLocals, result, highlighted, timers, rescanPending, fillHistory,
                 scanFresh, pageLeft, fnVars, callVars, watch, events, pageVars>>
  /\ clearLog' = clearLogInFill
  /\ scanLog' = <<>>

\* the loop is over: fillForms returns its summary
FillReturn ==
  /\ pc = "fillLoop" /\ idx > Len(iter)
  /\ result' = fillFormsReturn(processedFields, fillSession)
  /\ pc' = "idle"
  /\ UNCHANGED <<dom, settings, faker, callerOptions, detectedForms, detectedFields, fillSession,
                 fillLocals, highlighted, timers, rescanPending, fillHistory,
                 scanFresh, pageLeft, fnVars, callVars, watch, events, pageVars>>
  /\ clearLog' = clearLogInFill
  /\ scanLog' = <<>>

\* the timer of fillField removes the highlight
RemoveVisualFeedback ==
  /\ pc \in {"idle", "fillDelay", "scanWait"}
  /\ \E c \in timers :
       /\ timers' = timers \ {c}
       /\ highlighted' = highlighted \ {c}
  /\ rescanPending' = TRUE
  /\ UNCHANGED <<dom, settings, faker, callerOptions, detectedForms, detectedFields, fillSession,
                 pc, fillLocals, result, fillHistory, scanFresh, pageLeft,
                 fnVars, callVars, watch, events, pageVars>>
  /\ clearLog' = IF pc = "fillDelay" THEN clearLogInFill ELSE NoClear
  /\ scanLog' = IF pc = "scanWait" THEN scanLog ELSE <<>>

\* ------------------------------------------------------------------ clear
ClearSkipTypes == {"button", "submit", "reset", "image", "file"}

\* a forEach that clears every input type
ClearEligibleAnyType(f) ==
  /\ ~(f.disabled \/ f.readOnly)
  /\ ~IsCaptcha(f)

ClearEligible(f) ==
  /\ ~(f.disabled \/ f.readOnly)
  /\ ~IsCaptcha(f)
  /\ f.type \notin ClearSkipTypes

\* a reset that flips a checkbox instead of unchecking it
clearFieldToggle(f) ==
  IF f.type \in {"checkbox", "radio"} THEN [f EXCEPT !.checked = ~f.checked]
  ELSE [f EXCEPT !.value = <<>>]

clearField(f) ==
  IF f.type \in {"checkbox", "radio"} THEN [f EXCEPT !.checked = FALSE]
  ELSE IF f.tag = "select" THEN [f EXCEPT !.value = <<>>]
  ELSE [f EXCEPT !.value = SanitizedValue(f, <<>>)]

\* the document after the forEach of clearForms
clearAll(d) == [c \in DOMAIN d |-> IF ClearEligible(d[c]) THEN clearField(d[c]) ELSE d[c]]

clearFormsReturn(n) ==
  [NoResult EXCEPT !.op = "clear", !.success = TRUE, !.fieldsCleared = n]

\* clearForms from its first statement to its return: every eligible
\* control of the document is reset
clearFormsRun ==
  /\ dom' = clearAll(dom)
  /\ clearLog' = [run |-> Min2(clearLog.run + 1, 2),
                  start |-> IF clearLog.run = 0 THEN dom ELSE clearLog.start,
                  before |-> dom,
                  emptied |-> (IF clearLog.run = 0 THEN {} ELSE clearLog.emptied)
                              \cup {c \in Controls : clearAll(dom)[c] # dom[c]},
                  followed |-> FALSE, filled |-> {}]
  /\ scanLog' = <<>>
  /\ result' = clearFormsReturn(Cardinality({c \in Controls : ClearEligible(dom[c])}))
  /\ scanFresh' = "stale" /\ quiet' = FALSE
  /\ UNCHANGED <<settings, faker, callerOptions, detectedForms, detectedFields, fillSession, pc,
                 fillLocals, highlighted, timers, rescanPending, progressLog,
                 attempted, threwAt, wrote, pageLeft, fnVars>>

\* clear() while no fill call is in flight
ClearCall ==
  /\ pc = "idle"
  /\ clearFormsRun
  /\ UNCHANGED <<callVars, watch, events, pageVars>>

\* ------------------------------------------------------------------- page
\* the user or a script of the page changes a control while the engine is
\* suspended: types into it, empties it, toggles it
PageEdit ==
  /\ pageLeft > 0
  /\ pc \in {"idle", "fillDelay", "scanWait"}
  /\ \E c \in Controls :
       /\ dom' = IF dom[c].type \in {"checkbox", "radio"}
                   THEN SetChecked(dom, c, ~dom[c].checked)
                 ELSE IF dom[c].tag = "select"
                   THEN [dom EXCEPT ![c].value =
                           IF @ = <<>> /\ Len(dom[c].options) > 1
                             THEN dom[c].options[2].value ELSE <<>>]
                 ELSE [dom EXCEPT ![c].value =
                         IF @ = <<>> /\ dom[c].type # "file" THEN UserText ELSE <<>>]
  /\ pageLeft' = pageLeft - 1
  /\ scanFresh' = "stale" /\ quiet' = FALSE
  /\ UNCHANGED <<settings, faker, callerOptions, detectedForms, detectedFields, fillSession, pc,
                 fillLocals, result, highlighted, timers, rescanPending, progressLog,
                 attempted, threwAt, wrote, fnVars, callVars, watch, events, pageVars>>
  /\ clearLog' = NoClear
  /\ scanLog' = IF pc = "scanWait" THEN scanLog ELSE <<>>

\* a script of the page gives a control an id that breaks the label selector
\* (between two fields of a fill: before a call it is a document whose
\* control has such an id from the start)
PageSetId ==
  /\ pageLeft > 0
  /\ pc = "fillDelay"
  /\ \E c \in Controls :
       /\ ~dom[c].badId
       /\ dom' = [dom EXCEPT ![c].badId = TRUE]
  /\ pageLeft' = pageLeft - 1
  /\ scanFresh' = "stale" /\ quiet' = FALSE
  /\ UNCHANGED <<settings, faker, callerOptions, detectedForms, detectedFields, fillSession, pc,
                 fillLocals, result, highlighted, timers, rescanPending, progressLog,
                 attempted, threwAt, wrote, fnVars, callVars, watch, events, pageVars>>
  /\ clearLog' = NoClear
  /\ scanLog' = <<>>

Next ==
  \/ ScanCall
  \/ ScanRetry
  \/ MutationRescan
  \/ FillCall
  \/ FillGuardThrows
  \/ FillSkip
  \/ FillField
  \/ FillResume
  \/ FillReturn
  \/ RemoveVisualFeedback
  \/ ClearCall
  \/ PageEdit
  \/ PageSetId

Spec == Init /\ [][Next]_vars

\* ------------------------------------------------------- clear on its own
\* documents for clear(): controls that hold something, of every class the
\* forEach of clearForms tells apart
ClearTemplates ==
  { [Ctl EXCEPT !.name = "nick", !.value = UserText, !.form = 1],
    [Ctl EXCEPT !.name = "nick", !.value = UserText, !.form = 1, !.disabled = TRUE],
    [Ctl EXCEPT !.name = "nick", !.value = UserText, !.form = 1, !.readOnly = TRUE],
    [Ctl EXCEPT !.name = "nick", !.value = UserText, !.form = 1, !.noAutofill = TRUE],
    [Ctl EXCEPT !.name = "captcha_code", !.nameHas = {"captcha"}, !.value = UserText,
                !.form = 1],
    [Ctl EXCEPT !.type = "hidden", !.name = "token", !.value = UserText, !.hidden = TRUE,
                !.form = 1],
    [Ctl EXCEPT !.type = "submit", !.name = "send", !.value = UserText, !.form = 1],
    [Ctl EXCEPT !.type = "file", !.name = "upload", !.value = UserText, !.form = 1],
    [Ctl EXCEPT !.tag = "textarea", !.type = "textarea", !.name = "notes",
                !.value = UserText, !.form = 1],
    [Ctl EXCEPT !.type = "checkbox", !.name = "terms", !.checked = TRUE, !.form = 1],
    [Ctl EXCEPT !.type = "radio", !.name = "plan", !.group = 1, !.checked = TRUE,
                !.form = 1],
    [Ctl EXCEPT !.type = "radio", !.name = "plan", !.group = 1, !.form = 1],
    [Ctl EXCEPT !.tag = "select", !.type = "select-one", !.name = "colour",
                !.options = <<Opt(<<>>), Opt(Red), Opt(Blue)>>, !.value = Red, !.form = 1],
    [Ctl EXCEPT !.tag = "select", !.type = "select-one", !.name = "colour",
                !.options = <<Opt(Red), Opt(Blue)>>, !.value = Blue, !.form = 1],
    [Ctl EXCEPT !.type = "number", !.name = "qty", !.kw = {"number"},
                !.value = NumToStr(7), !.form = 1],
    [Ctl EXCEPT !.type = "range", !.name = "volume", !.kw = {"number"},
                !.value = NumToStr(7), !.form = 1] }

\* at most one radio of a group is checked
OneCheckedPerGroup(d) ==
  \A a, b \in DOMAIN d :
     (a # b /\ d[a].type = "radio" /\ d[b].type = "radio" /\ d[a].group = d[b].group)
        => ~(d[a].checked /\ d[b].checked)

InitClear ==
  /\ dom \in {d \in [Controls -> ClearTemplates] : OneCheckedPerGroup(d)}
  /\ settings = defaultSettings /\ faker \in BOOLEAN
  /\ callerOptions = NoOptions
  /\ detectedForms = <<>> /\ detectedFields = <<>>
  /\ fillSession = NoSession
  /\ pc = "idle"
  /\ fillOptions = [fillDelay |-> 0, visualFeedback |-> FALSE]
  /\ iter = <<>> /\ idx = 0 /\ totalFields = 0 /\ processedFields = 0
  /\ result = NoResult
  /\ highlighted = {} /\ timers = {} /\ rescanPending = FALSE
  /\ progressLog = <<>>
  /\ attempted = {} /\ threwAt = {} /\ wrote = {}
  /\ scanFresh = "stale" /\ quiet = FALSE
  /\ pageLeft = 0
  /\ clearLog = NoClear
  /\ scanLog = <<>>
  /\ caller = "none" /\ parked = <<>>
  /\ watch = NoWatch
  /\ events = <<>>
  /\ boot = NoBoot /\ tab = NoTab
  /\ FnIdle

NextClear == ClearCall

SpecClear == InitClear /\ [][NextClear]_vars

\* ---------------------------------------------------------------- callers
\* the popup's buttons and the keyboard shortcut of the service worker
Callers == {"popup", "shortcut"}

MaxParked == 1      \* fill calls that may wait behind the scheduled one

\* the locals of the scheduled fill call, and what is recorded about it
Frame ==
  [caller |-> caller, fillOptions |-> fillOptions, iter |-> iter, idx |-> idx,
   totalFields |-> totalFields, processedFields |-> processedFields,
   progressLog |-> progressLog, attempted |-> attempted, threwAt |-> threwAt,
   wrote |-> wrote]

\* who has a fill call in flight
InFlightCallers ==
  (IF pc \in {"fillLoop", "fillDelay"} THEN {caller} ELSE {})
  \cup {parked[i].caller : i \in 1..Len(parked)}

InFlight == (IF pc \in {"fillLoop", "fillDelay"} THEN 1 ELSE 0) + Len(parked)

\* setButtonState: Fill and Clear are disabled from the click until the
\* popup's own call has returned; handleCommand has no such state
MayInvoke(who) == who = "popup" => "popup" \notin InFlightCallers

\* a caller invokes fill: the engine is idle or the scheduled call is in its
\* pacing delay, which then waits behind the new call
CallerFill ==
  /\ pc \in {"idle", "fillDelay"}
  /\ pc = "fillDelay" => Len(parked) < MaxParked
  /\ \E who \in Callers :
       /\ MayInvoke(who)
       /\ caller' = who
  /\ parked' = IF pc = "fillDelay" THEN Append(parked, Frame) ELSE parked
  /\ fillFormsStart
  /\ UNCHANGED <<watch, events, pageVars>>

\* the popup invokes clear: clearForms has no await and returns at once
CallerClear ==
  /\ pc \in {"idle", "fillDelay"}
  /\ MayInvoke("popup")
  /\ clearFormsRun
  /\ UNCHANGED <<callVars, watch, events, pageVars>>

\* the pacing delay of the oldest waiting call is over: it is scheduled,
\* and a scheduled call in its delay waits behind the others
SwitchCall ==
  /\ pc \in {"idle", "fillDelay"}
  /\ parked # <<>>
  /\ LET f == Head(parked)
     IN /\ caller' = f.caller /\ fillOptions' = f.fillOptions
        /\ iter' = f.iter /\ idx' = f.idx
        /\ totalFields' = f.totalFields /\ processedFields' = f.processedFields
        /\ progressLog' = f.progressLog /\ attempted' = f.attempted
        /\ threwAt' = f.threwAt /\ wrote' = f.wrote
  /\ parked' = IF pc = "fillDelay" THEN Append(Tail(parked), Frame) ELSE Tail(parked)
  /\ pc' = "fillLoop"
  /\ result' = NoResult
  /\ clearLog' = NoClear
  /\ scanLog' = <<>>
  /\ UNCHANGED <<dom, settings, faker, callerOptions, detectedForms, detectedFields,
                 fillSession, highlighted, timers, rescanPending, scanFresh, quiet,
                 pageLeft, fnVars, watch, events, pageVars>>

\* the pacing delay of the scheduled call is over and no call waits longer
OnlyCallResumes ==
  /\ parked = <<>>
  /\ FillResume

OverlapTemplates ==
  { [Ctl EXCEPT !.type = "email", !.kw = {"email"}, !.name = "email", !.form = 1],
    [Ctl EXCEPT !.name = "nick", !.form = 1],
    [Ctl EXCEPT !.name = "nick", !.form = 1, !.value = UserText],
    [Ctl EXCEPT !.type = "file", !.name = "upload", !.form = 1] }

InitOverlap ==
  /\ dom \in [Controls -> OverlapTemplates]
  /\ settings = defaultSettings /\ faker \in BOOLEAN
  /\ callerOptions = NoOptions
  /\ detectedForms = <<>> /\ detectedFields = <<>>
  /\ fillSession = NoSession
  /\ pc = "idle"
  /\ fillOptions = [fillDelay |-> 0, visualFeedback |-> FALSE]
  /\ iter = <<>> /\ idx = 0 /\ totalFields = 0 /\ processedFields = 0
  /\ result = NoResult
  /\ highlighted = {} /\ timers = {} /\ rescanPending = FALSE
  /\ progressLog = <<>>
  /\ attempted = {} /\ threwAt = {} /\ wrote = {}
  /\ scanFresh = "stale" /\ quiet = FALSE
  /\ pageLeft = 0
  /\ clearLog = NoClear
  /\ scanLog = <<>>
  /\ caller = "none" /\ parked = <<>>
  /\ watch = NoWatch
  /\ events = <<>>
  /\ boot = NoBoot /\ tab = NoTab
  /\ FnIdle

NextOverlap ==
  \/ CallerFill
  \/ CallerClear
  \/ SwitchCall
  \/ FillSkip
  \/ FillField
  \/ OnlyCallResumes
  \/ FillReturn

SpecOverlap == InitOverlap /\ [][NextOverlap]_vars

\* ------------------------------------------------ the mutation observer
TickMs == 100        \* one time unit
QuietMs == 300       \* the debounce of the observer
RemoveMs == 1000     \* the highlight stays this long
MaxFields == 2       \* fields a fill call of this section may count
SlowFillDelay == 400 \* a pacing delay longer than the debounce
MaxWatchCalls == 2   \* fill calls of one behaviour of this section

Ticks(ms) == ms \div TickMs

\* a debounce that leaves the earlier timer pending
DebounceNoClear(ts) == ts \cup {Ticks(QuietMs)}

\* clearTimeout(this.rescanTimeout); this.rescanTimeout = setTimeout(..., 300)
Debounce(ts) == {Ticks(QuietMs)}

\* the observer's callback on a relevant mutation: a style or class change
\* of a form, input, textarea or select, or added controls; isOwn: the
\* mutation is a write of the running fill call
Observe(w, isOwn) ==
  [w EXCEPT !.rescanTimers = Debounce(@), !.sinceMutation = 0, !.mutated = TRUE,
            !.own = isOwn, !.rescans = 0,
            !.burst = IF w.rescans > 0 \/ ~w.mutated THEN 1 ELSE 2]

\* fillForms is called: the count found n fields to fill
WatchFillStart ==
  /\ watch.step = "idle"
  /\ watch.calls < MaxWatchCalls
  /\ \E n \in 1..MaxFields :
       watch' = [watch EXCEPT !.step = "loop", !.left = n, !.own = FALSE,
                              !.calls = @ + 1,
                              !.rescanInSession = FALSE,
                              !.removals = {[r EXCEPT !.cur = FALSE] : r \in @}]
  /\ UNCHANGED <<sessionVars, fnVars, callVars, events, pageVars>>

\* one iteration that calls fillField: the highlight is a style change of
\* the control; a write that throws leaves fillField before the removal is
\* scheduled and before the pacing delay
WatchFillField ==
  /\ watch.step = "loop" /\ watch.left > 0
  /\ \E threw \in BOOLEAN :
       LET seen == IF fillOptions.visualFeedback THEN Observe(watch, TRUE) ELSE watch
       IN watch' =
            [seen EXCEPT
               !.left = @ - 1,
               !.removals = IF fillOptions.visualFeedback /\ ~threw
                              THEN @ \cup {[left |-> Ticks(RemoveMs), cur |-> TRUE]}
                              ELSE @,
               !.stuck = @ \/ (fillOptions.visualFeedback /\ threw),
               !.step = IF ~threw /\ fillOptions.fillDelay > 0 THEN "delay" ELSE "loop",
               !.delayLeft = IF ~threw THEN Ticks(fillOptions.fillDelay) ELSE 0]
  /\ UNCHANGED <<sessionVars, fnVars, callVars, events, pageVars>>

\* the pacing delay is over
WatchDelayOver ==
  /\ watch.step = "delay" /\ watch.delayLeft = 0
  /\ watch' = [watch EXCEPT !.step = "loop"]
  /\ UNCHANGED <<sessionVars, fnVars, callVars, events, pageVars>>

\* the loop is over: fillForms returns
WatchFillReturn ==
  /\ watch.step = "loop" /\ watch.left = 0
  /\ watch' = [watch EXCEPT !.step = "idle"]
  /\ UNCHANGED <<sessionVars, fnVars, callVars, events, pageVars>>

\* a debounce timer fires: scanForms(true)
WatchRescan ==
  /\ watch.step # "loop"
  /\ 0 \in watch.rescanTimers
  /\ watch' = [watch EXCEPT !.rescanTimers = @ \ {0},
                            !.rescans = Min2(@ + 1, 2),
                            !.firedAfter = watch.sinceMutation,
                            !.rescanInSession = @ \/ (watch.step = "delay" /\ watch.own)]
  /\ UNCHANGED <<sessionVars, fnVars, callVars, events, pageVars>>

\* the timer of fillField fires: removeVisualFeedback is a style change
WatchRemove ==
  /\ watch.step # "loop"
  /\ \E r \in watch.removals :
       /\ r.left = 0
       /\ watch' = [Observe(watch, r.cur /\ watch.step = "delay")
                      EXCEPT !.removals = @ \ {r}]
  /\ UNCHANGED <<sessionVars, fnVars, callVars, events, pageVars>>

\* the page changes the style or class of a control, or adds controls
WatchPageMutation ==
  /\ watch.step # "loop"
  /\ watch' = Observe(watch, FALSE)
  /\ UNCHANGED <<sessionVars, fnVars, callVars, events, pageVars>>

\* one time unit passes: no timer is due
WatchTick ==
  /\ watch.step # "loop"
  /\ 0 \notin watch.rescanTimers
  /\ \A r \in watch.removals : r.left > 0
  /\ watch.step = "delay" => watch.delayLeft > 0
  /\ watch' = [watch EXCEPT
                 !.rescanTimers = {t - 1 : t \in @},
                 !.removals = {[r EXCEPT !.left = @ - 1] : r \in @},
                 !.delayLeft = IF watch.step = "delay" THEN @ - 1 ELSE @,
                 !.sinceMutation = Min2(@ + 1, Ticks(QuietMs) + 1)]
  /\ UNCHANGED <<sessionVars, fnVars, callVars, events, pageVars>>

\* the merged options of the calls of this section
WatchOptions ==
  {[fillDelay |-> d, visualFeedback |-> v] : d \in {0, DefaultFillDelay, SlowFillDelay}, v \in BOOLEAN}

InitWatch ==
  /\ dom = [c \in Controls |-> Ctl]
  /\ settings = defaultSettings /\ faker = TRUE
  /\ callerOptions = NoOptions
  /\ detectedForms = <<>> /\ detectedFields = <<>>
  /\ fillSession = NoSession
  /\ pc = "idle"
  /\ fillOptions \in WatchOptions
  /\ iter = <<>> /\ idx = 0 /\ totalFields = 0 /\ processedFields = 0
  /\ result = NoResult
  /\ highlighted = {} /\ timers = {} /\ rescanPending = FALSE
  /\ progressLog = <<>>
  /\ attempted = {} /\ threwAt = {} /\ wrote = {}
  /\ scanFresh = "stale" /\ quiet = FALSE
  /\ pageLeft = 0
  /\ clearLog = NoClear
  /\ scanLog = <<>>
  /\ caller = "none" /\ parked = <<>>
  /\ watch = NoWatch
  /\ events = <<>>
  /\ boot = NoBoot /\ tab = NoTab
  /\ FnIdle

NextWatch ==
  \/ WatchFillStart
  \/ WatchFillField
  \/ WatchDelayOver
  \/ WatchFillReturn
  \/ WatchRescan
  \/ WatchRemove
  \/ WatchPageMutation
  \/ WatchTick

SpecWatch == InitWatch /\ [][NextWatch]_vars

\* time passes, a timer that is due fires, and the loop of a running call
\* goes on; the page and the callers of fill are under no obligation
WatchFairness ==
  /\ WF_vars(WatchTick)
  /\ WF_vars(WatchRemove)
  /\ WF_vars(WatchRescan)
  /\ WF_vars(WatchDelayOver)
  /\ WF_vars(WatchFillField)
  /\ WF_vars(WatchFillReturn)

SpecWatchFair == SpecWatch /\ WatchFairness

\* ------------------------------------------------------ fill with options
OptionTemplates ==
  { [Ctl EXCEPT !.type = "email", !.kw = {"email"}, !.name = "email", !.form = 1],
    [Ctl EXCEPT !.name = "nick", !.form = 1],
    [Ctl EXCEPT !.name = "code", !.form = 1, !.hidden = TRUE] }

\* what a caller may pass: nothing, the two keys the popup sends, and the
\* other recognised keys
OptionSets ==
  { NoOptions,
    [NoOptions EXCEPT !.visualFeedback = TRUE, !.hasSkipHidden = TRUE, !.skipHidden = TRUE],
    [NoOptions EXCEPT !.hasSkipHidden = TRUE, !.skipHidden = FALSE],
    [NoOptions EXCEPT !.hasFillDelay = TRUE, !.fillDelay = 0],
    [NoOptions EXCEPT !.hasFillDelay = TRUE, !.fillDelay = DefaultFillDelay],
    [NoOptions EXCEPT !.hasEnabled = TRUE,
                      !.enabledFieldTypes = [b \in BaseKinds |-> b # "email"]] }

StoredSettings ==
  { defaultSettings,
    [defaultSettings EXCEPT !.skipHiddenFields = FALSE, !.fillDelay = 0] }

InitOptions ==
  /\ dom \in [Controls -> OptionTemplates]
  /\ settings \in StoredSettings /\ faker = TRUE
  /\ callerOptions \in OptionSets
  /\ detectedForms = <<>> /\ detectedFields = <<>>
  /\ fillSession = NoSession
  /\ pc = "idle"
  /\ fillOptions = [fillDelay |-> 0, visualFeedback |-> FALSE]
  /\ iter = <<>> /\ idx = 0 /\ totalFields = 0 /\ processedFields = 0
  /\ result = NoResult
  /\ highlighted = {} /\ timers = {} /\ rescanPending = FALSE
  /\ progressLog = <<>>
  /\ attempted = {} /\ threwAt = {} /\ wrote = {}
  /\ scanFresh = "stale" /\ quiet = FALSE
  /\ pageLeft = 0
  /\ clearLog = NoClear
  /\ scanLog = <<>>
  /\ caller = "none" /\ parked = <<>>
  /\ watch = NoWatch
  /\ events = <<>>
  /\ boot = NoBoot /\ tab = NoTab
  /\ FnIdle

NextOptions ==
  \/ FillCall
  \/ FillField
  \/ FillResume
  \/ FillReturn

SpecOptions == InitOptions /\ [][NextOptions]_vars


\* ------------------------------------------------- calls of pure functions
\* tag and declared type of the controls the functions are called on
FnShapes ==
  {[tag |-> "input", type |-> ty] :
      ty \in {"text", "email", "password", "tel", "url", "date", "datetime-local",
              "number", "range", "checkbox", "radio", "hidden", "file"}}
  \cup {[tag |-> "textarea", type |-> "textarea"],
        [tag |-> "select", type |-> "select-one"]}

\* which expressions of detectFieldType match the control's text
FnKeywords ==
  { {}, {"email"}, {"pass"}, {"phone"}, {"url"}, {"date"}, {"number"},
    {"name", "first"}, {"address", "city"}, {"card"}, {"date", "name"},
    {"email", "date"} }

\* what may keep the control from being filled
FnMarks == {"none", "hidden", "disabled", "readOnly", "noAutofill",
            "captchaName", "captchaId"}

FnControl(sh, kws, mark, val, chk) ==
  [Ctl EXCEPT !.tag = sh.tag, !.type = sh.type, !.kw = kws,
              !.hidden = (mark = "hidden"), !.disabled = (mark = "disabled"),
              !.readOnly = (mark = "readOnly"), !.noAutofill = (mark = "noAutofill"),
              !.nameHas = IF mark = "captchaName" THEN {"captcha"} ELSE {},
              !.idHas = IF mark = "captchaId" THEN {"captcha"} ELSE {},
              !.value = val, !.checked = chk,
              !.options = IF sh.tag = "select"
                            THEN <<Opt(<<>>), Opt(Red), Opt(Blue)>> ELSE <<>>]

FnControls ==
  {FnControl(sh, kws, mark, val, FALSE) :
      sh \in {x \in FnShapes : x.type \notin {"checkbox", "radio"}},
      kws \in FnKeywords, mark \in FnMarks, val \in {<<>>, Blank, UserText}}
  \cup
  {FnControl(sh, kws, mark, <<>>, chk) :
      sh \in {x \in FnShapes : x.type \in {"checkbox", "radio"}},
      kws \in FnKeywords, mark \in FnMarks, chk \in BOOLEAN}

FnSettings ==
  {[defaultSettings EXCEPT !.skipHiddenFields = sh, !.enabledFieldTypes = en] :
      sh \in BOOLEAN,
      en \in {[b \in BaseKinds |-> TRUE], [b \in BaseKinds |-> FALSE],
              [b \in BaseKinds |-> b = "date"],
              [b \in BaseKinds |-> b \notin {"text", "textarea"}]}}

SemanticKinds ==
  {"email", "password", "phone", "url", "date", "number", "firstName", "lastName",
   "middleName", "fullName", "streetAddress", "city", "state", "zipCode",
   "country", "company", "jobTitle", "creditCard", "paragraph", "select",
   "checkbox", "radio", "text"}

\* the engine is not running: the document is one plain control
InitFn ==
  /\ dom = [c \in Controls |-> Ctl]
  /\ settings = defaultSettings /\ faker = TRUE
  /\ callerOptions = NoOptions
  /\ detectedForms = <<>> /\ detectedFields = <<>>
  /\ fillSession = NoSession
  /\ pc = "idle"
  /\ fillOptions = [fillDelay |-> 0, visualFeedback |-> FALSE]
  /\ iter = <<>> /\ idx = 0 /\ totalFields = 0 /\ processedFields = 0
  /\ result = NoResult
  /\ highlighted = {} /\ timers = {} /\ rescanPending = FALSE
  /\ progressLog = <<>>
  /\ attempted = {} /\ threwAt = {} /\ wrote = {}
  /\ scanFresh = "stale" /\ quiet = FALSE
  /\ pageLeft = 0
  /\ clearLog = NoClear
  /\ scanLog = <<>>
  /\ caller = "none" /\ parked = <<>>
  /\ watch = NoWatch
  /\ events = <<>>
  /\ boot = NoBoot /\ tab = NoTab
  /\ fnF \in FnControls
  /\ fnS \in FnSettings
  /\ response = NoResponse
  /\ fnFaker \in BOOLEAN
  /\ fnOp = "none" /\ fnKind = "none" /\ fnOut = NoOut

\* detectFieldType(field)
FnDetect ==
  /\ fnOp = "none"
  /\ fnOp' = "detect"
  /\ fnOut' = [NoOut EXCEPT !.detected = detectFieldType(fnF)]
  /\ UNCHANGED <<sessionVars, callVars, watch, events, pageVars, response, fnF, fnS, fnFaker, fnKind>>

\* isFieldFillable(field)
FnFillable ==
  /\ fnOp = "none"
  /\ fnOp' = "fillable"
  /\ fnOut' = [NoOut EXCEPT !.detected = detectFieldType(fnF),
                            !.fillable = isFieldFillable(fnF, fnS)]
  /\ UNCHANGED <<sessionVars, callVars, watch, events, pageVars, response, fnF, fnS, fnFaker, fnKind>>

\* generateFakeData(fieldType, field)
FnGenerate ==
  /\ fnOp = "none"
  /\ fnOp' = "generate"
  /\ \E kind \in SemanticKinds :
       /\ fnKind' = kind
       /\ \E g \in generateFakeData(kind, fnF, fnFaker) :
            fnOut' = [NoOut EXCEPT !.value = g]
  /\ UNCHANGED <<sessionVars, callVars, watch, events, pageVars, response, fnF, fnS, fnFaker>>

NextFn ==
  \/ FnDetect
  \/ FnFillable
  \/ FnGenerate

SpecFn == InitFn /\ [][NextFn]_vars

\* ------------------------------------------------------- dispatched events
\* what fillField or the forEach body of clearForms does to its control, in
\* order: writes of value / checked and dispatched events
Wr(prop) == [k |-> "write", type |-> prop, bubbles |-> FALSE, cancelable |-> FALSE]

Ev(type, bubbles, cancelable) ==
  [k |-> "event", type |-> type, bubbles |-> bubbles, cancelable |-> cancelable]

\* the framework branch of triggerChangeEvents hands the control its own
\* value through the native setter of input / textarea: the value stays
Reset == [k |-> "reset", type |-> "value", bubbles |-> FALSE, cancelable |-> FALSE]

\* a dispatch whose events can not be cancelled
triggerChangeEventsBubbleOnly(f, tracked) ==
  <<Ev("input", TRUE, FALSE), Ev("change", TRUE, FALSE), Ev("blur", TRUE, FALSE)>>

\* triggerChangeEvents(field); tracked: the control carries a value tracker
\* of a framework
triggerChangeEvents(f, tracked) ==
  <<Ev("input", TRUE, TRUE), Ev("change", TRUE, TRUE), Ev("blur", TRUE, TRUE)>>
  \o (IF tracked
        THEN (IF f.tag \in {"input", "textarea"} THEN <<Reset>> ELSE <<>>)
             \o <<Ev("input", TRUE, FALSE)>>
        ELSE <<>>)

\* field.click() on a checkbox: the click event, the toggle, and the input
\* and change events of the browser
clickEvents ==
  <<Ev("click", TRUE, TRUE), Wr("checked"), Ev("input", TRUE, FALSE), Ev("change", TRUE, FALSE)>>

\* the try block of the styled-checkbox branch up to the fault
antdCheckboxEvents(fault) ==
  CASE fault = "click" -> <<>>
    [] fault = "dispatch" -> clickEvents
    [] fault = "none" ->
         clickEvents \o <<Ev("change", TRUE, FALSE), Ev("input", TRUE, FALSE),
                          Wr("checked"), Ev("ant-checkbox-change", TRUE, FALSE)>>

\* fillField(fieldData, options) on control f with the constrained value v
fillFieldEvents(f, v, fault, tracked) ==
  CASE f.type = "checkbox" ->
         <<Wr("checked")>> \o (IF f.antd THEN antdCheckboxEvents(fault) ELSE <<>>)
         \o triggerChangeEvents(f, tracked)
    [] f.type = "radio" ->
         (IF Truthy(v) THEN <<Wr("checked")>> ELSE <<>>) \o triggerChangeEvents(f, tracked)
    [] f.type \in {"select-one", "select-multiple"} ->
         (IF Truthy(v) THEN <<Wr("value")>> ELSE <<>>) \o triggerChangeEvents(f, tracked)
    [] OTHER ->
         IF v.k \in {"str", "num"}
           THEN (IF ValueSetterThrows(f, ToStr(v)) THEN <<>>
                 ELSE <<Wr("value")>> \o triggerChangeEvents(f, tracked))
           ELSE triggerChangeEvents(f, tracked)

\* the try block of clearForms for one control
clearFieldEvents(f, tracked) ==
  <<Wr(IF f.type \in {"checkbox", "radio"} THEN "checked" ELSE "value")>>
  \o triggerChangeEvents(f, tracked)

\* the controls of this section: the templates, empty or holding a value
EventControls ==
  {[t EXCEPT !.value = v] :
      t \in {x \in Templates : x.type \notin {"checkbox", "radio"} /\ x.tag # "select"},
      v \in {<<>>, UserText}}
  \cup {[t EXCEPT !.value = v] : t \in {x \in Templates : x.tag = "select"}, v \in {<<>>, Red}}
  \cup {[t EXCEPT !.checked = b] :
          t \in {x \in Templates : x.type \in {"checkbox", "radio"}}, b \in BOOLEAN}

InitEvents ==
  /\ dom = [c \in Controls |-> Ctl]
  /\ settings = defaultSettings /\ faker = TRUE
  /\ callerOptions = NoOptions
  /\ detectedForms = <<>> /\ detectedFields = <<>>
  /\ fillSession = NoSession
  /\ pc = "idle"
  /\ fillOptions = [fillDelay |-> 0, visualFeedback |-> FALSE]
  /\ iter = <<>> /\ idx = 0 /\ totalFields = 0 /\ processedFields = 0
  /\ result = NoResult
  /\ highlighted = {} /\ timers = {} /\ rescanPending = FALSE
  /\ progressLog = <<>>
  /\ attempted = {} /\ threwAt = {} /\ wrote = {}
  /\ scanFresh = "stale" /\ quiet = FALSE
  /\ pageLeft = 0
  /\ clearLog = NoClear
  /\ scanLog = <<>>
  /\ caller = "none" /\ parked = <<>>
  /\ watch = NoWatch
  /\ events = <<>>
  /\ boot = NoBoot /\ tab = NoTab
  /\ fnF \in EventControls
  /\ fnS \in FnSettings
  /\ response = NoResponse
  /\ fnFaker \in BOOLEAN
  /\ fnOp = "none" /\ fnKind = "none" /\ fnOut = NoOut

\* the loop of fillForms calls fillField on a control that passes its guard
DispatchFill ==
  /\ fnOp = "none"
  /\ isFieldFillable(fnF, fnS) /\ isFieldEmpty(fnF)
  /\ \E g \in generateFakeData(detectFieldType(fnF), fnF, fnFaker),
        fault \in FaultsOf(fnF), tracked \in BOOLEAN :
       /\ events' = fillFieldEvents(fnF, applyConstraints(fnF, g), fault, tracked)
       /\ fnOut' = [NoOut EXCEPT !.value = applyConstraints(fnF, g)]
  /\ fnOp' = "fill"
  /\ UNCHANGED <<sessionVars, callVars, watch, pageVars, response, fnF, fnS, fnFaker, fnKind>>

\* the forEach of clearForms reaches a control it does not skip
DispatchClear ==
  /\ fnOp = "none"
  /\ ClearEligible(fnF)
  /\ \E tracked \in BOOLEAN : events' = clearFieldEvents(fnF, tracked)
  /\ fnOp' = "clear"
  /\ UNCHANGED <<sessionVars, callVars, watch, pageVars, response, fnF, fnS, fnFaker, fnKind, fnOut>>

NextEvents == DispatchFill \/ DispatchClear

SpecEvents == InitEvents /\ [][NextEvents]_vars


\* --------------------------------------------- generation and constraints
\* controls for applyConstraints: text-like and numeric shapes with and
\* without maxlength, min and max
EnforceShapes ==
  {[tag |-> "input", type |-> ty] : ty \in {"text", "email", "number", "range"}}
  \cup {[tag |-> "textarea", type |-> "textarea"]}

EnforceLengths == {0, 1, 2, 5}

\* declared bounds: none, or [min, max]
EnforceRanges ==
  {[hasMin |-> FALSE, min |-> 0, hasMax |-> FALSE, max |-> 0],
   [hasMin |-> TRUE, min |-> 5, hasMax |-> FALSE, max |-> 0],
   [hasMin |-> FALSE, min |-> 0, hasMax |-> TRUE, max |-> 10],
   [hasMin |-> TRUE, min |-> 5, hasMax |-> TRUE, max |-> 10],
   [hasMin |-> TRUE, min |-> 200, hasMax |-> TRUE, max |-> 300]}

\* a name with "age" or "yearsAttended" in it matches the number expression
\* of detectFieldType
EnforceControls ==
  {[Ctl EXCEPT !.tag = sh.tag, !.type = sh.type, !.maxLength = len,
               !.hasMin = r.hasMin, !.min = r.min, !.hasMax = r.hasMax, !.max = r.max,
               !.kw = IF nh = {} THEN kws ELSE kws \cup {"number"}, !.nameHas = nh] :
      sh \in EnforceShapes, len \in EnforceLengths, r \in EnforceRanges,
      kws \in {{}, {"number"}}, nh \in {{}, {"age"}, {"yearsAttended"}}}

\* values handed to applyConstraints directly
EnforceValues ==
  {Str(<<>>), Str(UserText), Str(FakerParagraph), Str(NumToStr(7)), Str(SampleData),
   Num(0), Num(7), Num(18), Num(250), Num(1000), Num(0 - 3)}

InitEnforce ==
  /\ dom = [c \in Controls |-> Ctl]
  /\ settings = defaultSettings /\ faker = TRUE
  /\ callerOptions = NoOptions
  /\ detectedForms = <<>> /\ detectedFields = <<>>
  /\ fillSession = NoSession
  /\ pc = "idle"
  /\ fillOptions = [fillDelay |-> 0, visualFeedback |-> FALSE]
  /\ iter = <<>> /\ idx = 0 /\ totalFields = 0 /\ processedFields = 0
  /\ result = NoResult
  /\ highlighted = {} /\ timers = {} /\ rescanPending = FALSE
  /\ progressLog = <<>>
  /\ attempted = {} /\ threwAt = {} /\ wrote = {}
  /\ scanFresh = "stale" /\ quiet = FALSE
  /\ pageLeft = 0
  /\ clearLog = NoClear
  /\ scanLog = <<>>
  /\ caller = "none" /\ parked = <<>>
  /\ watch = NoWatch
  /\ events = <<>>
  /\ boot = NoBoot /\ tab = NoTab
  /\ fnF \in EnforceControls
  /\ fnS = defaultSettings
  /\ response = NoResponse
  /\ fnFaker \in BOOLEAN
  /\ fnOp = "none" /\ fnKind = "none" /\ fnOut = NoOut

\* fillField, first two statements: the value generated for the control's
\* detected kind goes through applyConstraints
FnFillValue ==
  /\ fnOp = "none"
  /\ fnOp' = "fillValue"
  /\ fnKind' = detectFieldType(fnF)
  /\ \E g \in generateFakeData(detectFieldType(fnF), fnF, fnFaker) :
       fnOut' = [NoOut EXCEPT !.detected = detectFieldType(fnF), !.given = g,
                              !.value = applyConstraints(fnF, g)]
  /\ UNCHANGED <<sessionVars, callVars, watch, events, pageVars, response, fnF, fnS, fnFaker>>

\* applyConstraints(field, value) on a value of the caller's choice
FnConstrain ==
  /\ fnOp = "none"
  /\ fnOp' = "constrain"
  /\ \E v \in EnforceValues :
       fnOut' = [NoOut EXCEPT !.given = v, !.value = applyConstraints(fnF, v)]
  /\ UNCHANGED <<sessionVars, callVars, watch, events, pageVars, response, fnF, fnS, fnFaker, fnKind>>

NextEnforce ==
  \/ FnFillValue
  \/ FnConstrain

SpecEnforce == InitEnforce /\ [][NextEnforce]_vars

\* ------------------------------------------------- paragraph generation
ParagraphLengths == {0, 3, 8, 12, 60, 250}   \* maxlength of the controls of this section
ParagraphHints == {0, 3, 10, 100}            \* "max N characters" near the control

\* textareas with and without maxlength and a "max N characters" hint
ParagraphControls ==
  {[Ctl EXCEPT !.tag = "textarea", !.type = "textarea", !.name = "notes",
               !.maxLength = len, !.hintLimit = hint] :
      len \in ParagraphLengths, hint \in ParagraphHints}

InitParagraph ==
  /\ dom = [c \in Controls |-> Ctl]
  /\ settings = defaultSettings /\ faker = TRUE
  /\ callerOptions = NoOptions
  /\ detectedForms = <<>> /\ detectedFields = <<>>
  /\ fillSession = NoSession
  /\ pc = "idle"
  /\ fillOptions = [fillDelay |-> 0, visualFeedback |-> FALSE]
  /\ iter = <<>> /\ idx = 0 /\ totalFields = 0 /\ processedFields = 0
  /\ result = NoResult
  /\ highlighted = {} /\ timers = {} /\ rescanPending = FALSE
  /\ progressLog = <<>>
  /\ attempted = {} /\ threwAt = {} /\ wrote = {}
  /\ scanFresh = "stale" /\ quiet = FALSE
  /\ pageLeft = 0
  /\ clearLog = NoClear
  /\ scanLog = <<>>
  /\ caller = "none" /\ parked = <<>>
  /\ watch = NoWatch
  /\ events = <<>>
  /\ boot = NoBoot /\ tab = NoTab
  /\ fnF \in ParagraphControls
  /\ fnS = defaultSettings
  /\ response = NoResponse
  /\ fnFaker \in BOOLEAN
  /\ fnOp = "none" /\ fnKind = "none" /\ fnOut = NoOut

\* generateFakeData(fieldType, field) for the detected kind of the control
GenerateDetected ==
  /\ fnOp = "none"
  /\ fnOp' = "generate"
  /\ fnKind' = detectFieldType(fnF)
  /\ \E g \in generateFakeData(detectFieldType(fnF), fnF, fnFaker) :
       fnOut' = [NoOut EXCEPT !.detected = detectFieldType(fnF), !.given = g, !.value = g]
  /\ UNCHANGED <<sessionVars, callVars, watch, events, pageVars, response, fnF, fnS, fnFaker>>

\* fillField: the generated value goes through applyConstraints
ConstrainGenerated ==
  /\ fnOp = "generate"
  /\ fnOp' = "fillValue"
  /\ fnOut' = [fnOut EXCEPT !.value = applyConstraints(fnF, fnOut.given)]
  /\ UNCHANGED <<sessionVars, callVars, watch, events, pageVars, response, fnF, fnS, fnFaker,
                 fnKind>>

NextParagraph == GenerateDetected \/ ConstrainGenerated

SpecParagraph == InitParagraph /\ [][NextParagraph]_vars

\* ------------------------------------------------ loading the configuration
SettingKeys == DOMAIN defaultSettings

FlagKeys == {"autoFillEnabled", "visualFeedbackEnabled", "skipHiddenFields"}

\* the kinds a stored enabled-kinds map may mention
StoredKinds == {"text", "email", "checkbox"}

StoredKindMaps == UNION {[K -> BOOLEAN] : K \in SUBSET StoredKinds}

StoredDelays == {0, 250}

\* an object of the settings store holding the keys K; dataLocale is the key
\* the install handler writes and the engine does not know
StoredObject(K, flag, d, e) ==
  [k \in K |-> CASE k = "fillDelay" -> d
                 [] k = "enabledFieldTypes" -> e
                 [] k = "dataLocale" -> "en"
                 [] OTHER -> flag[k]]

StoredObjects ==
  {StoredObject(K, flag, d, e) :
      K \in SUBSET (SettingKeys \cup {"dataLocale"}),
      flag \in [FlagKeys -> BOOLEAN], d \in StoredDelays, e \in StoredKindMaps}

\* no answer, a failed answer, an answer without settings, an answer with
\* the stored object
Responses ==
  {NoResponse,
   [NoResponse EXCEPT !.answered = TRUE],
   [NoResponse EXCEPT !.answered = TRUE, !.success = TRUE]}
  \cup {[answered |-> TRUE, success |-> TRUE, hasSettings |-> TRUE, settings |-> o] :
           o \in StoredObjects}

\* empty controls of four base kinds, one of them hidden
SettingsControls ==
  {FnControl([tag |-> "input", type |-> ty], {}, mark, <<>>, FALSE) :
      ty \in {"text", "email", "checkbox", "url"}, mark \in {"none"}}
  \cup {FnControl([tag |-> "input", type |-> "text"], {}, "hidden", <<>>, FALSE)}

\* the constructor has run: default settings, init() not yet past getSettings
InitSettings ==
  /\ dom = [c \in Controls |-> Ctl]
  /\ settings = defaultSettings /\ faker = TRUE
  /\ callerOptions = NoOptions
  /\ detectedForms = <<>> /\ detectedFields = <<>>
  /\ fillSession = NoSession
  /\ pc = "idle"
  /\ fillOptions = [fillDelay |-> 0, visualFeedback |-> FALSE]
  /\ iter = <<>> /\ idx = 0 /\ totalFields = 0 /\ processedFields = 0
  /\ result = NoResult
  /\ highlighted = {} /\ timers = {} /\ rescanPending = FALSE
  /\ progressLog = <<>>
  /\ attempted = {} /\ threwAt = {} /\ wrote = {}
  /\ scanFresh = "stale" /\ quiet = FALSE
  /\ pageLeft = 0
  /\ clearLog = NoClear
  /\ scanLog = <<>>
  /\ caller = "none" /\ parked = <<>>
  /\ watch = NoWatch
  /\ events = <<>>
  /\ boot = NoBoot /\ tab = NoTab
  /\ response \in Responses
  /\ fnF \in SettingsControls
  /\ fnS = defaultSettings
  /\ fnFaker = TRUE
  /\ fnOp = "none" /\ fnKind = "none" /\ fnOut = NoOut

\* init(): this.settings = await this.getSettings()
LoadSettings ==
  /\ fnOp = "none"
  /\ fnOp' = "getSettings"
  /\ settings' = getSettings(response)
  /\ UNCHANGED <<dom, faker, callerOptions, detectedForms, detectedFields, fillSession,
                 pc, fillOptions, iter, idx, totalFields, processedFields, result,
                 highlighted, timers, rescanPending, progressLog,
                 attempted, threwAt, wrote, scanFresh, quiet, pageLeft, clearLog, scanLog,
                 callVars, watch, events, pageVars, response, fnF, fnS, fnFaker, fnKind, fnOut>>

\* isFieldFillable(field) under the loaded settings
FnFillableLoaded ==
  /\ fnOp = "getSettings"
  /\ fnOp' = "fillable"
  /\ fnOut' = [NoOut EXCEPT !.detected = detectFieldType(fnF),
                            !.fillable = isFieldFillable(fnF, settings)]
  /\ UNCHANGED <<sessionVars, callVars, watch, events, pageVars, response, fnF, fnS, fnFaker, fnKind>>

NextSettings ==
  \/ LoadSettings
  \/ FnFillableLoaded

SpecSettings == InitSettings /\ [][NextSettings]_vars

\* ------------------------------------------------------------------- init
\* the answers init() is run against: none, a failed one, one without
\* settings, and one stored object
BootResponses ==
  {r \in Responses : ~r.hasSettings}
  \cup {[answered |-> TRUE, success |-> TRUE, hasSettings |-> TRUE,
         settings |-> [fillDelay |-> 250, skipHiddenFields |-> FALSE]]}

\* the constructor has run in a document drawn from the templates
InitBoot ==
  /\ dom \in {d \in [Controls -> Templates] : WellFormed(d)}
  /\ settings = defaultSettings /\ faker = TRUE
  /\ callerOptions = NoOptions
  /\ detectedForms = <<>> /\ detectedFields = <<>>
  /\ fillSession = NoSession
  /\ pc = "idle"
  /\ fillOptions = [fillDelay |-> 0, visualFeedback |-> FALSE]
  /\ iter = <<>> /\ idx = 0 /\ totalFields = 0 /\ processedFields = 0
  /\ result = NoResult
  /\ highlighted = {} /\ timers = {} /\ rescanPending = FALSE
  /\ progressLog = <<>>
  /\ attempted = {} /\ threwAt = {} /\ wrote = {}
  /\ scanFresh = "stale" /\ quiet = FALSE
  /\ pageLeft = 0
  /\ clearLog = NoClear
  /\ scanLog = <<>>
  /\ caller = "none" /\ parked = <<>>
  /\ watch = NoWatch
  /\ events = <<>>
  /\ \E ch \in {"answers", "throws"} : boot = [NoBoot EXCEPT !.channel = ch]
  /\ tab = NoTab
  /\ response \in BootResponses
  /\ fnF = Ctl /\ fnS = defaultSettings /\ fnFaker = TRUE
  /\ fnOp = "none" /\ fnKind = "none" /\ fnOut = NoOut

bootRest == <<dom, faker, callerOptions, fillSession, pc, fillLocals, highlighted, timers,
              rescanPending, fillHistory, pageLeft, clearLog, fnVars, callVars, watch,
              events, tab>>

\* init(): this.settings = await this.getSettings(). sendMessage is called
\* inside the promise executor: when it throws, the promise rejects and the
\* catch of init logs the error and ends init
BootGetSettings ==
  /\ boot.step = "constructed"
  /\ IF boot.channel = "throws"
       THEN /\ boot' = [boot EXCEPT !.step = "done", !.logged = TRUE]
            /\ UNCHANGED settings
       ELSE /\ boot' = [boot EXCEPT !.step = "observer"]
            /\ settings' = getSettings(response)
  /\ UNCHANGED <<detectedForms, detectedFields, result, scanFresh, scanLog, bootRest>>

\* init(): this.setupMutationObserver()
BootObserver ==
  /\ boot.step = "observer"
  /\ boot' = [boot EXCEPT !.step = "waiting", !.observer = TRUE]
  /\ UNCHANGED <<settings, detectedForms, detectedFields, result, scanFresh, scanLog, bootRest>>

\* init(): await this.waitForContent(); the document holds controls, so the
\* polling loop ends at its first attempt
BootWaitForContent ==
  /\ boot.step = "waiting"
  /\ boot' = [boot EXCEPT !.step = "scanning"]
  /\ UNCHANGED <<settings, detectedForms, detectedFields, result, scanFresh, scanLog, bootRest>>

\* init(): await this.scanForms(), up to its return or to the retry delay
BootScan ==
  /\ boot.step = "scanning"
  /\ LET pass == ScanPass(dom, settings)
     IN /\ detectedForms' = pass.forms
        /\ detectedFields' = pass.fields
        /\ scanLog' = <<scanPassEntry(FALSE, pass)>>
        /\ IF pass.threw
             THEN /\ result' = scanFormsCatch /\ scanFresh' = "call"
                  /\ boot' = [boot EXCEPT !.step = "done", !.scanned = TRUE,
                                          !.isInitialized = TRUE]
             ELSE IF Len(pass.forms) = 0
               THEN /\ result' = NoResult /\ scanFresh' = "silent"
                    /\ boot' = [boot EXCEPT !.step = "retry"]
               ELSE /\ result' = scanFormsReturn(pass.forms, pass.fields)
                    /\ scanFresh' = "call"
                    /\ boot' = [boot EXCEPT !.step = "done", !.scanned = TRUE,
                                            !.isInitialized = TRUE]
  /\ UNCHANGED <<settings, bootRest>>

\* the silent retry of the initial scan, then this.isInitialized = true
BootScanRetry ==
  /\ boot.step = "retry"
  /\ LET pass == ScanPass(dom, settings)
     IN /\ detectedForms' = pass.forms
        /\ detectedFields' = pass.fields
        /\ scanLog' = Append(scanLog, scanPassEntry(TRUE, pass))
        /\ result' = scanFormsReturn(pass.forms, pass.fields)
        /\ scanFresh' = "call"
  /\ boot' = [boot EXCEPT !.step = "done", !.scanned = TRUE, !.isInitialized = TRUE]
  /\ UNCHANGED <<settings, bootRest>>

NextBoot ==
  \/ BootGetSettings
  \/ BootObserver
  \/ BootWaitForContent
  \/ BootScan
  \/ BootScanRetry

SpecBoot == InitBoot /\ [][NextBoot]_vars

\* ---------------------------------------------------------------- injection
\* the three callers of injectContentScript
Triggers == {"tabUpdated", "command", "contextMenu"}
MaxInjectCalls == 4

\* a tab whose document is complete: the content script is there already
\* (it ran when the document loaded) or not (the tab is older than the
\* extension)
InitInject ==
  /\ dom = [c \in Controls |-> Ctl]
  /\ settings = defaultSettings /\ faker = TRUE
  /\ callerOptions = NoOptions
  /\ detectedForms = <<>> /\ detectedFields = <<>>
  /\ fillSession = NoSession
  /\ pc = "idle"
  /\ fillOptions = [fillDelay |-> 0, visualFeedback |-> FALSE]
  /\ iter = <<>> /\ idx = 0 /\ totalFields = 0 /\ processedFields = 0
  /\ result = NoResult
  /\ highlighted = {} /\ timers = {} /\ rescanPending = FALSE
  /\ progressLog = <<>>
  /\ attempted = {} /\ threwAt = {} /\ wrote = {}
  /\ scanFresh = "stale" /\ quiet = FALSE
  /\ pageLeft = 0
  /\ clearLog = NoClear
  /\ scanLog = <<>>
  /\ caller = "none" /\ parked = <<>>
  /\ watch = NoWatch
  /\ events = <<>>
  /\ boot = NoBoot
  /\ \E loaded \in 0..1, auto, rejects \in BOOLEAN :
       tab = [NoTab EXCEPT !.engines = loaded, !.observers = loaded,
                           !.autoFillEnabled = auto, !.filesRejected = rejects]
  /\ fnF = Ctl /\ fnS = defaultSettings
  /\ response = NoResponse
  /\ fnFaker = TRUE
  /\ fnOp = "none" /\ fnKind = "none" /\ fnOut = NoOut

injectRest == <<sessionVars, fnVars, callVars, watch, events, boot>>

\* injectContentScript up to its first await: the presence check is sent
injectContentScript(t) ==
  /\ tab.calls[t] = "none"
  /\ tab' = [tab EXCEPT !.calls[t] = "check", !.started = @ + 1]
  /\ UNCHANGED injectRest

\* the timer of the tab-updated handler fires, when auto-fill is enabled
handleTabUpdated ==
  /\ tab.started < MaxInjectCalls
  /\ tab.autoFillEnabled
  /\ injectContentScript("tabUpdated")

\* the keyboard shortcut: fillCurrentForm begins with injectContentScript
handleCommand ==
  /\ tab.started < MaxInjectCalls
  /\ injectContentScript("command")

\* a context menu entry: fillCurrentField and fillCurrentForm begin with it
handleContextMenuClick ==
  /\ tab.started < MaxInjectCalls
  /\ injectContentScript("contextMenu")

\* the presence check runs in the document and its answer decides the call
InjectCheck ==
  /\ \E t \in Triggers :
       /\ tab.calls[t] = "check"
       /\ LET isInjected == tab.engines > 0
          IN tab' = [tab EXCEPT !.calls[t] = IF isInjected THEN "none" ELSE "files"]
  /\ UNCHANGED injectRest

\* executeScript with the two files: content.js runs and constructs an
\* engine, or the call rejects and the DOM injection is next
InjectFiles ==
  /\ \E t \in Triggers :
       /\ tab.calls[t] = "files"
       /\ tab' = IF tab.filesRejected
                   THEN [tab EXCEPT !.calls[t] = "dom"]
                   ELSE [tab EXCEPT !.calls[t] = "none", !.engines = @ + 1,
                                    !.booting = @ + 1]
  /\ UNCHANGED injectRest

\* the fallback: content.js is appended to the document as a script element
\* and runs as a page script, where the extension's channel does not exist
InjectDom ==
  /\ \E t \in Triggers :
       /\ tab.calls[t] = "dom"
       /\ tab' = [tab EXCEPT !.calls[t] = "none", !.pageEngines = @ + 1]
  /\ UNCHANGED injectRest

\* init() of an injected engine gets its settings and installs its observer
EngineInit ==
  /\ tab.booting > 0
  /\ tab' = [tab EXCEPT !.booting = @ - 1, !.observers = @ + 1]
  /\ UNCHANGED injectRest

NextInject ==
  \/ handleTabUpdated
  \/ handleCommand
  \/ handleContextMenuClick
  \/ InjectCheck
  \/ InjectFiles
  \/ InjectDom
  \/ EngineInit

SpecInject == InitInject /\ [][NextInject]_vars


\* ================================================================== claims
Protected(f) == f.disabled \/ f.readOnly \/ IsCaptcha(f) \/ f.noAutofill

FillReturned == pc = "idle" /\ result.op = "fill"

InventoryElements == {detectedFields[i].element : i \in 1..Len(detectedFields)}

IterElements == {iter[i].element : i \in 1..Len(iter)}

NonDecreasing(s) == \A i, j \in 1..Len(s) : i <= j => s[i] <= s[j]

\* C1: isFieldFillable is false for every control whose detected kind is
\* "date", whatever the enabled-kinds map, the skip-hidden flag and the
\* control's state.
C1_DateNeverFillable ==
  (fnOp = "fillable" /\ fnOut.detected = "date") => ~fnOut.fillable

\* a date-kind control that passes every other test of the predicate
C1_Witness ==
  /\ fnOp = "fillable" /\ fnOut.detected = "date"
  /\ fnF.type = "text" /\ EnabledIn(fnS, "text") /\ EnabledIn(fnS, "date")
  /\ ~IsHidden(fnF) /\ ~Protected(fnF) /\ isFieldEmpty(fnF)

\* C2: generateFakeData("date", field) returns the empty string, with the
\* backend and with the static fallback table.
C2_DateGeneratesEmpty ==
  (fnOp = "generate" /\ fnKind = "date") => fnOut.value = Str(<<>>)

\* C3: a fill session changes neither the value nor the checked state of a
\* control that is disabled, readonly, captcha-named or marked data-no-autofill.
C3_ProtectedUntouched ==
  \A c \in wrote : ~Protected(dom[c])

\* the round trip scan -> fill -> scan with no interference: the fill ended
\* without errors and a scan call returned after it
RoundTripDone ==
  /\ pc = "idle" /\ quiet /\ result.op = "scan" /\ ~result.hasError
  /\ scanFresh = "call" /\ fillSession.errors = <<>>

\* C4 as claimed: after the round trip no control of the filled inventory is
\* reported by the following scan, whatever its type.
C4_NoneReportedAgain ==
  RoundTripDone => IterElements \cap InventoryElements = {}

TextLike(f) == f.tag = "textarea" \/ (f.tag = "input" /\ f.type \in TextLikeTypes)

\* C4 as amended: after the round trip every text-like control of the filled
\* inventory is non-empty and not reported again; a control of that inventory
\* that is reported again is a checkbox or radio left unchecked or a select
\* left without a selection.
C4_TextLikeNotReportedAgain ==
  RoundTripDone =>
    \A c \in IterElements :
       /\ TextLike(dom[c]) => (~isFieldEmpty(dom[c]) /\ c \notin InventoryElements)
       /\ c \in InventoryElements =>
            \/ dom[c].type \in {"checkbox", "radio"} /\ ~dom[c].checked
            \/ dom[c].tag = "select" /\ dom[c].value = <<>>

\* a round trip over a text-like control that was filled and is gone from
\* the inventory
C4_Witness ==
  /\ RoundTripDone
  /\ \E c \in IterElements : TextLike(dom[c]) /\ c \in wrote /\ c \notin InventoryElements

FillableControls == {c \in Controls : isFieldFillable(dom[c], settings)}

C6_ProgressEndsAt100 ==
  (FillReturned /\ result.success /\ totalFields > 0) =>
    /\ NonDecreasing(progressLog)
    /\ Len(progressLog) > 0
    /\ progressLog[Len(progressLog)] = 100

\* C7: every progress value sent is an integer in 0..100, and the number of
\* fields processed never exceeds the total counted before the loop.
C7_ProgressInRange ==
  /\ processedFields <= totalFields
  /\ \A i \in 1..Len(progressLog) : progressLog[i] \in 0..100

\* the page changed a control during a pacing delay and the session went on
\* to fill a field after it
C7_Witness ==
  /\ ~quiet /\ pc = "fillLoop" /\ idx > Len(iter)
  /\ processedFields >= 2 /\ Len(progressLog) = processedFields

\* C8: a field whose generation or write step throws is recorded in the
\* error list with its identifier, every later record of the inventory is
\* still attempted, and the session returns success with the summary: no
\* exception raised for one field aborts the session.
C8_PartialFailure ==
  /\ \A i \in threwAt :
        \E j \in 1..Len(fillSession.errors) : fillSession.errors[j].field = iter[i].name
  /\ Len(fillSession.errors) = Cardinality(threwAt)
  /\ (FillReturned /\ totalFields > 0) =>
        /\ result.success
        /\ result.errors = fillSession.errors
        /\ attempted = 1..Len(iter)

C10_EmptyFill ==
  (FillReturned /\ totalFields = 0) =>
    /\ result.success /\ ~result.hasError
    /\ result.fieldsProcessed = 0 /\ result.fieldsSkipped = 0
    /\ result.errors = <<>>
    /\ wrote = {} /\ progressLog = <<>>
    /\ idx = 0

\* a fill on a document whose controls are all filled or excluded
C10_Witness ==
  /\ FillReturned /\ totalFields = 0
  /\ \E c \in Controls : ~isFieldEmpty(dom[c]) \/ Protected(dom[c])

ClearExempt(f) ==
  \/ f.disabled \/ f.readOnly
  \/ "captcha" \in f.nameHas \/ "captcha" \in f.idHas
  \/ f.type \in {"file", "button", "submit", "reset", "image"}

Constrained == fnOp \in {"fillValue", "constrain"}

\* C13: on a text-like control with maxlength L the value applyConstraints
\* returns, written as a string, has at most L characters, for string and
\* for number values alike.
C13_MaxLengthRespected ==
  (Constrained /\ TextLike(fnF) /\ fnF.maxLength > 0 /\ fnOut.given.k \in {"str", "num"})
     => Len(ToStr(fnOut.value)) <= fnF.maxLength

\* C14: on an input of type number or range with declared min <= max the
\* value applyConstraints returns lies in [min, max].
C14_WithinMinMax ==
  (Constrained /\ fnF.type \in {"number", "range"} /\ fnF.hasMin /\ fnF.hasMax
     /\ fnF.min <= fnF.max)
     => /\ fnOut.value.k = "num"
        /\ fnF.min <= fnOut.value.n /\ fnOut.value.n <= fnF.max

\* the values of the options of a select that have a value and a label
EligibleValues(f) ==
  {f.options[i].value : i \in {j \in 1..Len(f.options) :
       Trim(f.options[j].value) # <<>> /\ Trim(f.options[j].text) # <<>>}}

\* C15: generation for the select kind on a select with an eligible option
\* returns the value of an eligible option, never the empty string, with or
\* without the backend; with no eligible option it returns the empty string.
C15_SelectPicksOption ==
  (fnOp = "generate" /\ fnKind = "select" /\ fnF.tag = "select") =>
     IF EligibleValues(fnF) # {}
       THEN fnOut.value.k = "str" /\ fnOut.value.s \in EligibleValues(fnF)
       ELSE fnOut.value = Str(<<>>)

\* styled checkboxes the running or last fill session has processed, with
\* nothing else touching them since
ProcessedStyled ==
  {iter[i].element : i \in {j \in attempted \ threwAt :
       j <= Len(iter) /\ dom[iter[j].element].type = "checkbox"
                      /\ dom[iter[j].element].antd}}

\* C16: once fill has processed a styled checkbox, its native checked
\* property and the "checked" class of its wrapper agree, whichever boolean
\* was generated and whether or not the click or an event dispatch throws.
C16_StyledCheckboxAgrees ==
  quiet => \A c \in ProcessedStyled : dom[c].checked = dom[c].wrapChecked

\* the kind that belongs to an explicit type attribute
KindOfType(type) ==
  CASE type = "email" -> "email"
    [] type = "password" -> "password"
    [] type = "tel" -> "phone"
    [] type = "url" -> "url"
    [] type \in {"date", "datetime-local"} -> "date"
    [] type = "number" -> "number"

\* C17: a control whose type attribute is email, password, tel, url, date,
\* datetime-local or number is classified by that type, whatever keywords
\* its name, id, placeholder, autocomplete, class or labels hold.
C17_ExplicitTypeWins ==
  (fnOp = "detect" /\ fnF.tag = "input"
     /\ fnF.type \in {"email", "password", "tel", "url", "date", "datetime-local", "number"})
     => fnOut.detected = KindOfType(fnF.type)

\* C18: isFieldFillable is true exactly when the base kind is enabled, the
\* semantic kind is not date, the control is not hidden while skip-hidden is
\* configured, neither name nor id is on the captcha deny-list, the control
\* is not disabled or readonly, has no opt-out marker and is empty; the base
\* kind of a control that is no date control has a toggle, set by default.
C18_FillableIff ==
  fnOp = "fillable" =>
    LET base == getBaseType(fnF, fnOut.detected)
    IN /\ fnOut.fillable <=>
            /\ base \in DOMAIN fnS.enabledFieldTypes /\ fnS.enabledFieldTypes[base]
            /\ fnOut.detected # "date"
            /\ ~(fnS.skipHiddenFields /\ (fnF.hidden \/ fnF.type = "hidden"))
            /\ "captcha" \notin (fnF.nameHas \cup fnF.idHas)
            /\ ~fnF.disabled /\ ~fnF.readOnly
            /\ ~fnF.noAutofill
            /\ (IF fnF.type \in {"checkbox", "radio"} THEN ~fnF.checked
                ELSE Trim(fnF.value) = <<>>)
       /\ (fnF.type \notin {"date", "datetime-local"} /\ fnOut.detected # "date")
             => /\ base \in DOMAIN defaultSettings.enabledFieldTypes
                /\ defaultSettings.enabledFieldTypes[base]

\* a fillable control whose kind comes from a keyword, and whose base kind
\* is one of several enabled ones
C18_Witness ==
  /\ fnOp = "fillable" /\ fnOut.fillable
  /\ fnF.type = "text" /\ fnOut.detected = "phone"
  /\ \E b \in BaseKinds : ~fnS.enabledFieldTypes[b]

\* the configuration of a fill call as the claim has it: each option given
\* replaces the stored value
EffectiveSettings ==
  [skipHiddenFields |-> IF callerOptions.hasSkipHidden THEN callerOptions.skipHidden
                        ELSE settings.skipHiddenFields,
   fillDelay |-> IF callerOptions.hasFillDelay THEN callerOptions.fillDelay
                 ELSE settings.fillDelay,
   enabledFieldTypes |-> IF callerOptions.hasEnabled THEN callerOptions.enabledFieldTypes
                         ELSE settings.enabledFieldTypes]

\* C19: the options of a fill call govern the session: skipHidden and
\* enabledFieldTypes decide which controls the session takes up, fillDelay
\* whether it pauses after a field, visualFeedback whether it highlights.
C19_OptionsGovern ==
  /\ scanFresh = "silent" =>
        InventoryElements = {c \in Controls : isFieldFillable(dom[c], EffectiveSettings)}
  /\ pc = "fillDelay" => EffectiveSettings.fillDelay > 0
  /\ highlighted # {} => callerOptions.visualFeedback
  /\ (callerOptions.visualFeedback /\ processedFields > 0) => highlighted # {}

\* the stored object the last answer carried, the empty object if none
StoredOf(r) ==
  IF r.answered /\ r.success /\ r.hasSettings THEN r.settings ELSE <<>>

SettingsLoaded == fnOp \in {"getSettings", "fillable"}

\* C20: after the configuration is loaded, whatever the settings store
\* answered (nothing, a failure, no object, an object with any subset of
\* the keys and any subset of the enabled-kinds map), the effective
\* configuration has every key of the defaults, each with the stored value
\* where the store gives one and the default otherwise; the enabled-kinds
\* map has every base kind, with the stored value where given and true
\* otherwise; and a visible empty control whose base kind the stored map
\* does not mention is fillable.
C20_SettingsMerged ==
  SettingsLoaded =>
    LET stored == StoredOf(response)
        hasMap == "enabledFieldTypes" \in DOMAIN stored
    IN /\ SettingKeys \subseteq DOMAIN settings
       /\ \A k \in SettingKeys \ {"enabledFieldTypes"} :
             settings[k] = IF k \in DOMAIN stored THEN stored[k] ELSE defaultSettings[k]
       /\ BaseKinds \subseteq DOMAIN settings.enabledFieldTypes
       /\ \A b \in BaseKinds :
             settings.enabledFieldTypes[b] =
               IF hasMap /\ b \in DOMAIN stored.enabledFieldTypes
                 THEN stored.enabledFieldTypes[b] ELSE TRUE
       /\ ( /\ fnOp = "fillable"
            /\ ~(settings.skipHiddenFields /\ IsHidden(fnF))
            /\ ~(hasMap /\ getBaseType(fnF, fnOut.detected) \in DOMAIN stored.enabledFieldTypes) )
          => fnOut.fillable

\* a stored object that gives skipHiddenFields and a map disabling email
\* only: the delay is the default, email is off, the hidden text control
\* is fillable
C20_Witness ==
  /\ fnOp = "fillable"
  /\ DOMAIN StoredOf(response) = {"skipHiddenFields", "enabledFieldTypes"}
  /\ DOMAIN StoredOf(response).enabledFieldTypes = {"email"}
  /\ ~settings.enabledFieldTypes["email"]
  /\ ~settings.skipHiddenFields
  /\ settings.fillDelay = DefaultFillDelay
  /\ IsHidden(fnF) /\ fnOut.fillable

\* C21: the inventory is what the most recent scan pass produced from the
\* document (nothing of an earlier pass survives), and the counts a scan
\* call returns are the sizes of that inventory.
C21_InventoryIsLastPass ==
  /\ scanFresh # "stale" =>
       /\ detectedForms = ScanPass(dom, settings).forms
       /\ detectedFields = ScanPass(dom, settings).fields
  /\ (scanFresh = "call" /\ result.op = "scan") =>
       /\ result.forms = Len(detectedForms)
       /\ result.fields = Len(detectedFields)

\* C22: the callers never invoke fill or clear while a fill or clear
\* session on the document is in flight: at most one session is in
\* progress at any time, and no clear returns while a fill call is in flight.
C22_SingleSession ==
  /\ InFlight <= 1
  /\ ~(pc \in {"fillLoop", "fillDelay"} /\ result.op = "clear")

\* what the scheduled call itself skipped: the loop positions it reached
\* that were neither processed nor ended in an exception
OwnSkipped == Cardinality(attempted) - processedFields - Cardinality(threwAt)

\* C28: the processed count, the skipped count and the error list a fill
\* call returns are those of the fields that call handled, also when
\* another fill call started before it returned; and a call starts with an
\* empty session.
C28_SessionPrivate ==
  /\ (FillReturned /\ result.success) =>
        /\ result.fieldsProcessed = processedFields
        /\ result.fieldsSkipped = OwnSkipped
        /\ Len(result.errors) = Cardinality(threwAt)
  /\ (pc = "fillLoop" /\ attempted = {}) => fillSession = NoSession

\* the loop positions at which the scheduled fill call wrote to its control
WrittenPositions == {i \in attempted \ threwAt : iter[i].element \in wrote}

\* the place of a control's group in a scan pass: the forms in document
\* order, the controls outside every form last
GroupRank(f) == IF f.form = 0 THEN MaxFormId + 1 ELSE f.form

\* C23 as claimed: of two controls written in one fill session, the one
\* that comes first in the document is written first, also when it stands
\* outside every form and the other is inside a form.
C23_DocumentOrder ==
  \A i, j \in WrittenPositions :
     iter[i].element < iter[j].element => i < j

\* C23 as the code has it: controls of forms are written before controls
\* outside every form; forms are taken in document order, and two controls
\* of the same group are written in document order.
C23_ScanOrder ==
  \A i, j \in WrittenPositions :
     i < j =>
       LET a == dom[iter[i].element]
           b == dom[iter[j].element]
       IN \/ GroupRank(a) < GroupRank(b)
          \/ (a.form = b.form /\ iter[i].element < iter[j].element)

\* a returned fill that wrote a control outside every form and a control of
\* a form that comes later in the document
C23_Witness ==
  /\ FillReturned
  /\ \E i, j \in WrittenPositions :
        /\ iter[i].element < iter[j].element
        /\ dom[iter[i].element].form = 0
        /\ dom[iter[j].element].form # 0

\* C24: no rescan armed by a write of the running fill call (the highlight's
\* style change or its removal) runs before that call has returned.
C24_NoRescanInSession == ~watch.rescanInSession

\* C25: at most one debounced rescan is pending; a rescan runs exactly one
\* quiet period after the last relevant mutation, so a burst of mutations
\* that follow each other within the quiet period gives one rescan: none
\* before the quiet period is over, one once it is.
C25_Debounce ==
  /\ Cardinality(watch.rescanTimers) <= 1
  /\ watch.rescans <= 1
  /\ watch.rescans = 1 => watch.firedAfter = Ticks(QuietMs)
  /\ (watch.mutated /\ watch.sinceMutation < Ticks(QuietMs)) => watch.rescans = 0
  /\ (watch.mutated /\ watch.sinceMutation > Ticks(QuietMs)) => watch.rescans = 1

\* a burst of two or more mutations was followed by its one rescan
C25_Witness ==
  /\ watch.burst = 2 /\ watch.rescans = 1
  /\ watch.rescanTimers = {}

\* C26: a scan call makes at most two passes. A second pass is made exactly
\* when the call is not silent and its first pass found no forms (and did
\* not throw); the second pass is silent and the call returns after it. A
\* silent scan makes one pass.
C26_ScanAtMostTwoPasses ==
  /\ Len(scanLog) <= 2
  /\ Len(scanLog) = 2 =>
        /\ ~scanLog[1].silent /\ scanLog[1].forms = 0 /\ ~scanLog[1].threw
        /\ scanLog[2].silent
        /\ pc = "idle" /\ result.op = "scan"
  /\ Len(scanLog) = 1 =>
        IF scanLog[1].silent THEN pc # "scanWait"
        ELSE IF scanLog[1].forms = 0 /\ ~scanLog[1].threw
          THEN pc = "scanWait"
          ELSE pc = "idle" /\ result.op = "scan"
  /\ pc = "scanWait" => Len(scanLog) = 1

\* a scan call of a document without fillable controls returned after its
\* silent retry
C26_Witness ==
  /\ pc = "idle" /\ result.op = "scan"
  /\ Len(scanLog) = 2 /\ scanLog[2].silent /\ scanLog[2].forms = 0

\* a fill call that began right after a clear call has returned
FillAfterClearReturned ==
  /\ clearLog.followed
  /\ pc = "idle" /\ result.op = "fill"

InventoryControls == {detectedFields[i].element : i \in 1..Len(detectedFields)}

\* C27: a fill call that follows a clear call directly scans first, so its
\* loop walks an inventory that holds every fillable control of the document
\* as the clear left it, and when it returns it has passed to fillField
\* every control that the clear changed and that was fillable when the fill
\* began.
C27_FillAfterClear ==
  /\ (clearLog.followed /\ scanLog # <<>>) =>
        /\ InventoryControls = {c \in Controls : isFieldFillable(dom[c], settings)}
        /\ pc = "fillLoop" => iter = detectedFields
  /\ FillAfterClearReturned => clearLog.emptied \subseteq clearLog.filled

\* the same for documents whose scan does not throw
C27_UnlessScanThrows == ScanThrows(dom) \/ C27_FillAfterClear

\* a fill call after a clear call has returned and has filled two controls
\* that the clear had emptied
C27_Refilled ==
  /\ FillAfterClearReturned
  /\ Cardinality(clearLog.emptied) = 2
  /\ clearLog.emptied \subseteq wrote

\* a control of the page carries the highlight
HighlightOnPage == watch.removals # {} \/ watch.stuck

\* C29: with visual feedback enabled, whenever a control carries the
\* highlight of a fill call, a later state has no highlighted control: every
\* highlight is removed, also that of a control whose write or event
\* dispatch threw.
C29_HighlightTransient == HighlightOnPage ~> ~HighlightOnPage

\* the highlight of every control whose fillField returned is removed
C29_RemovedUnlessThrown == (watch.removals # {}) ~> (watch.removals = {})

LastWrite == CHOOSE i \in 1..Len(events) :
               /\ events[i].k = "write"
               /\ \A j \in (i + 1)..Len(events) : events[j].k # "write"

\* the events dispatched after the last write that bubble and can be cancelled
AfterLastWrite ==
  SelectSeq(SubSeq(events, LastWrite + 1, Len(events)),
            LAMBDA e : e.k = "event" /\ e.cancelable)

\* C30: when fillField or clearForms has written the value or the checked
\* state of a control, the events dispatched on it after the last write
\* include input, change and blur, in this order, each one bubbling and
\* cancelable; so every write is followed by the three.
C30_EventsAfterWrite ==
  (\E i \in 1..Len(events) : events[i].k = "write") =>
     AfterLastWrite =
       <<Ev("input", TRUE, TRUE), Ev("change", TRUE, TRUE), Ev("blur", TRUE, TRUE)>>

\* fillField on a styled checkbox wrote checked three times and dispatched
\* the three events after the last write
C30_Witness ==
  /\ fnOp = "fill"
  /\ Cardinality({i \in 1..Len(events) : events[i].k = "write"}) = 3
  /\ Len(AfterLastWrite) = 3

\* the settings channel is unavailable: the request throws, or the callback
\* gets no response, a failed one, or one without settings
ChannelUnavailable ==
  \/ boot.channel = "throws"
  \/ ~response.answered
  \/ ~response.success
  \/ ~response.hasSettings

\* C31: when the settings channel is unavailable, init ends with the
\* default configuration, the mutation observer installed and the initial
\* scan performed, and nothing is reported as an error.
C31_FallbackToDefaults ==
  (ChannelUnavailable /\ boot.step = "done") =>
     /\ settings = defaultSettings
     /\ boot.observer /\ boot.scanned /\ boot.isInitialized
     /\ ~boot.logged

\* the same when the request does not throw
C31_UnlessRequestThrows == boot.channel = "throws" \/ C31_FallbackToDefaults

\* init ended on defaults after a failed answer
C31_AnsweredWithoutSuccess ==
  /\ boot.step = "done" /\ boot.channel = "answers"
  /\ response.answered /\ ~response.success
  /\ boot.scanned /\ settings = defaultSettings

\* C32: generateFakeData called for the kind checkbox or radio returns a
\* boolean, with the data backend and without it.
C32_BooleanForCheckable ==
  (fnOp = "generate" /\ fnKind \in {"checkbox", "radio"}) => fnOut.value.k = "bool"

\* the same when the data backend is present
C32_BooleanWithBackend == ~fnFaker \/ C32_BooleanForCheckable

\* a boolean was generated for a radio button
C32_RadioBoolean ==
  /\ fnOp = "generate" /\ fnKind = "radio" /\ fnFaker
  /\ fnOut.value.k = "bool" /\ ~fnOut.value.b

\* the number n follows the policy for control f: inside the declared
\* bounds, else below the bound of the declared digit count, else inside
\* the default span; a bound below the minimum collapses to the minimum
FollowsNumericPolicy(f, n) ==
  LET lo == IF f.hasMin THEN f.min ELSE 0
  IN IF f.hasMax
       THEN (IF f.max < lo THEN n = lo ELSE lo <= n /\ n <= f.max)
     ELSE IF f.maxLength > 0
       THEN (IF Pow10(Min2(f.maxLength, MaxDigits)) - 1 < lo THEN n = lo
             ELSE n <= Pow10(Min2(f.maxLength, MaxDigits)) - 1)
     ELSE lo <= n /\ n <= lo + DefaultSpan

\* fillField has generated the value of a control of kind number
NumberGenerated == fnOp = "fillValue" /\ fnKind = "number"

\* C33: the value generated for a control of kind number is a number that
\* follows the numeric policy.
C33_NumericPolicy ==
  NumberGenerated =>
     /\ fnOut.given.k = "num"
     /\ FollowsNumericPolicy(fnF, fnOut.given.n)

\* the same for the numbers of the range branch: the backend is present and
\* answers, and the name of the control is not one of the special names
C33_RangeBranchPolicy ==
  (NumberGenerated /\ fnFaker /\ fnF.nameHas \cap {"aadhaarNumber", "yearsAttended"} = {}
                   /\ fnOut.given.k = "num")
     => FollowsNumericPolicy(fnF, fnOut.given.n)

\* a number was generated at the bound of the declared digit count
C33_DigitBound ==
  /\ NumberGenerated /\ fnFaker /\ ~fnF.hasMax /\ fnF.maxLength = 2
  /\ fnOut.given = Num(99)

\* the text generated for a control of kind paragraph that has a limit
ParagraphGenerated ==
  /\ fnOp = "generate" /\ fnKind = "paragraph"
  /\ ParagraphLimit(fnF) > 0

\* C34: the text generateFakeData returns for a control of kind paragraph
\* with an effective limit is no longer than the limit, on every path.
C34_ParagraphWithinLimit ==
  ParagraphGenerated =>
     /\ fnOut.given.k = "str"
     /\ Len(fnOut.given.s) <= ParagraphLimit(fnF)

\* the same for the text of the paragraph branch: every text but the one of
\* the catch clause, with the backend present
C34_BranchWithinLimit ==
  (ParagraphGenerated /\ fnFaker /\ fnOut.given # Str(SampleData)) =>
     Len(fnOut.given.s) <= ParagraphLimit(fnF)

\* a text was cut to the hint, which is below the maxlength
C34_CutToHint ==
  /\ ParagraphGenerated /\ fnFaker
  /\ fnF.hintLimit = 3 /\ fnF.maxLength = 8
  /\ Len(fnOut.given.s) = 3

SameContent(c) == dom'[c].value = dom[c].value /\ dom'[c].checked = dom[c].checked

\* C35: no step of the fill loop changes the value or the checked state of a
\* control that is not empty when the step begins, whether the control is
\* the one whose turn it is or another one.
C35_NeverOverwrites ==
  [][\A c \in Controls : (pc = "fillLoop" /\ ~isFieldEmpty(dom[c])) => SameContent(c)]_vars

\* the control whose turn it is in the loop
TurnControl == iter[idx].element

\* the loop is at a record whose control is not empty
NonEmptyAtItsTurn ==
  /\ pc = "fillLoop" /\ idx <= Len(iter)
  /\ ~isFieldEmpty(dom[TurnControl])

\* the guard of the loop: the control whose turn it is stays as it is when
\* it is not empty
C35_TurnGuard == [][NonEmptyAtItsTurn => SameContent(TurnControl)]_vars

\* the loop reaches a control that the page filled during the pacing delay
C35_FilledDuringDelay ==
  /\ NonEmptyAtItsTurn /\ idx = 2
  /\ dom[TurnControl].value = UserText

\* ------------------------------------------------------------- accounting
\* a fill call that entered the loop and returned the summary of line 1103
SummaryReturned == FillReturned /\ result.success /\ totalFields > 0

\* the three outcomes of the returned summary, added up
Accounted == result.fieldsProcessed + result.fieldsSkipped + Len(result.errors)

\* C36: a fill call that entered the loop returns a summary in which the
\* processed count, the skipped count and the number of recorded errors add
\* up to the number of records of the inventory the call iterated.
C36_AccountingInvariant ==
  SummaryReturned => Accounted = Len(iter)

\* a returned summary with a processed record and a skipped or failed one
C36_Witness ==
  /\ SummaryReturned /\ result.fieldsProcessed > 0
  /\ result.fieldsSkipped + Len(result.errors) > 0

\* ------------------------------------------------------ iterated inventory
\* a fill call is between its first loop iteration and its return
InFlightFill == pc \in {"fillLoop", "fillDelay"}

\* C37: while a fill call is in flight, no step adds a record to or removes a
\* record from the sequence the call iterates, also when a rescan replaces
\* the shared inventory during a pacing delay; the call visits the positions
\* of that sequence one after the other, and its summary is returned after
\* every position was visited.
C37_IteratesOwnInventory ==
  [][InFlightFill =>
       /\ iter' = iter
       /\ idx' \in {idx, idx + 1}
       /\ (pc' = "idle" /\ result'.success) => attempted' = 1..Len(iter)]_vars

\* a rescan during a pacing delay has replaced the shared inventory by one
\* that differs from the sequence the call in flight iterates
C37_InventoryReplaced ==
  /\ pc = "fillDelay" /\ scanFresh = "silent"
  /\ detectedFields # iter
  /\ idx <= Len(iter)

\* --------------------------------------------------------- injected once
\* engines the tab's document holds, in either world
EnginesInDocument == tab.engines + tab.pageEngines

\* C38: whatever the interleaving of the injectContentScript calls of the
\* tab-updated handler, the keyboard shortcut and the context menu, the
\* document never holds two engines or two mutation observers.
C38_InjectedOnce ==
  /\ EnginesInDocument <= 1
  /\ tab.observers <= 1

\* two calls in flight have both been answered that no engine is present
C38_BothSawNoEngine ==
  \E s, t \in Triggers : s # t /\ tab.calls[s] = "files" /\ tab.calls[t] = "files"

\* ------------------------------------------------- styled checkbox class
\* only fill and clear calls have changed the document so far
NoPageEdit == pageLeft = IF callerOptions.visualFeedback THEN 0 ELSE MaxPageActions

StyledCheckboxes == {c \in Controls : dom[c].type = "checkbox" /\ dom[c].antd}

\* C39: after any sequence of fill and clear calls, the native checked
\* property of every styled checkbox equals the presence of the "checked"
\* class on its wrapper; a clear that unchecks a box that fill had checked
\* removes the class as well.
C39_ClassFollowsChecked ==
  (NoPageEdit /\ pc = "idle") =>
     \A c \in StyledCheckboxes : dom[c].checked = dom[c].wrapChecked

\* a clear call has returned and a styled checkbox that a fill call had
\* checked is unchecked while its wrapper still has the class
C39_ClassLeftByClear ==
  /\ NoPageEdit /\ pc = "idle" /\ result.op = "clear"
  /\ \E c \in StyledCheckboxes : ~dom[c].checked /\ dom[c].wrapChecked

====
